---- MODULE Spec2Model ----
(***************************************************************************)
(* Subscription detection and lifecycle engine (app/services.py,           *)
(* app/main.py, app/models.py).                                            *)
(*                                                                         *)
(* Representation                                                          *)
(*   text       a sequence of one-character strings                        *)
(*   timestamp  a naive datetime, as whole hours since an epoch; its date  *)
(*              is the day number  ts \div 24                              *)
(*   amount     a float holding a whole number of currency units           *)
(*   money that went through round(x, 2) (monthly_cost, the savings        *)
(*              accumulator, monthly_commitment) is held in hundredths     *)
(*   Optional   None is the constant None for subscription_id, the empty   *)
(*              tuple for notes and for an Optional return value           *)
(*   dict       a function for the values and the sequence of its keys in  *)
(*              insertion order, which is its iteration order              *)
(***************************************************************************)
EXTENDS Integers, Sequences, FiniteSets, TLC

\* ---------------------------------------------------------------- bounds
\* MaxTx bounds the ledger, MaxEmails the stored emails, MaxCalls the number
\* of email and decision calls together; MaxClusterTx bounds the ledger when
\* two clusters are followed far enough for each to get its subscription
MaxTx == 3
MaxEmails == 1
MaxCalls == 3
MaxClusterTx == 4

\* ------------------------------------------------------------- characters
\* A text is a str of Latin-1 characters, each written as a one-character
\* string. The three characters that case conversion of a Latin-1 letter
\* gives outside Latin-1 are written by code point: "U+0178" (capital y with
\* diaeresis), "U+039C" (Greek capital mu, the upper case of the micro sign)
\* and "U+03BC" (Greek small mu, its lower case).
\*
\* UpperLetters: the characters of these with str.isupper(); LowerLetters:
\* those with str.islower(); LowerLetters[i] is the lower case of UpperLetters[i], and
\* the letters after these pairs (sharp s, micro sign, the ordinal
\* indicators) have no upper-case letter of their own. The other characters
\* are in Digits, Whitespace and Punctuation; together they are Alphabet.
\* Characters outside Alphabet (Greek, Cyrillic, U+1E9E, U+2082, U+1680 and
\* so on) are valid in a str and are outside what is followed here: no
\* operator below gives a value for them.
UpperLetters ==
    <<"A","B","C","D","E","F","G","H","I","J","K","L","M","N",
      "O","P","Q","R","S","T","U","V","W","X","Y","Z","À","Á",
      "Â","Ã","Ä","Å","Æ","Ç","È","É","Ê","Ë","Ì","Í","Î","Ï",
      "Ð","Ñ","Ò","Ó","Ô","Õ","Ö","Ø","Ù","Ú","Û","Ü","Ý","Þ",
      "U+0178","U+039C">>
LowerLetters ==
    <<"a","b","c","d","e","f","g","h","i","j","k","l","m","n",
      "o","p","q","r","s","t","u","v","w","x","y","z","à","á",
      "â","ã","ä","å","æ","ç","è","é","ê","ë","ì","í","î","ï",
      "ð","ñ","ò","ó","ô","õ","ö","ø","ù","ú","û","ü","ý","þ",
      "ÿ","U+03BC","ß","µ","ª","º">>
\* str.isalnum() and not str.isalpha(): decimal digits, superscripts, fractions
Digits == {"0","1","2","3","4","5","6","7","8","9","²","³","¹","¼","½","¾"}
\* str.isspace(): space, tab, line feed, carriage return, form feed, then
\* U+000B, U+001C, U+001D, U+001E, U+001F, U+0085 and U+00A0
Whitespace == {" ", "\t", "\n", "\r", "\f", "", "", "", "", "", "", " "}
Range(s) == {s[i] : i \in 1..Len(s)}

\* the lower-case and the upper-case letters as sets
LowerSet == Range(LowerLetters)
UpperSet == Range(UpperLetters)
\* the other characters of Latin-1: controls, signs and punctuation, with
\* neither str.isalnum() nor str.isspace() (U+0000 and U+0060 cannot be
\* written here and are left out)
Punctuation ==
    {"","","","","","","","","","","","","","",
     "","","","","","","","","!","\"","#","$","%","&",
     "'","(",")","*","+",",","-",".","/",":",";","<","=",">",
     "?","@","[","\\","]","^","_","{","|","}","~","","","",
     "","","","","","","","","","","","","","",
     "","","","","","","","","","","","","","",
     "","¡","¢","£","¤","¥","¦","§","¨","©","«","¬","­","®",
     "¯","°","±","´","¶","·","¸","»","¿","×","÷"}
\* The characters a text is made of. The character operators are defined on
\* these characters and on no others: a str may hold any Unicode character,
\* and what Python does with one outside Alphabet is not described here.
Alphabet == LowerSet \cup UpperSet \cup Digits \cup Whitespace \cup Punctuation
\* str.islower(), str.isupper() and str.isspace() of each character
CharClass ==
    [ch \in Alphabet |->
        [islower |-> ch \in LowerSet, isupper |-> ch \in UpperSet,
         isspace |-> ch \in Whitespace]]
islower(ch) == CharClass[ch].islower
isupper(ch) == CharClass[ch].isupper
isalpha(ch) == islower(ch) \/ isupper(ch)
isalnum(ch) == isalpha(ch) \/ ch \in Digits
isspace(ch) == CharClass[ch].isspace

\* str.lower() of one character
LowerOf == [ch \in UpperSet |->
               LowerLetters[CHOOSE i \in 1..Len(UpperLetters) : UpperLetters[i] = ch]]
lower(ch) == IF isupper(ch) THEN LowerOf[ch] ELSE ch
\* The title case of one character, which str.capitalize() and str.title()
\* put at the start of a word: the upper case, "Ss" for the sharp s, Greek
\* capital mu for the micro sign
TitleOf == [ch \in LowerSet |->
               IF ch = "ß" THEN <<"S", "s">>
               ELSE IF ch = "µ" THEN <<"U+039C">>
               ELSE LET i == CHOOSE k \in 1..Len(LowerLetters) : LowerLetters[k] = ch
                    IN  IF i <= Len(UpperLetters) THEN <<UpperLetters[i]>> ELSE <<ch>>]
titlecase(ch) == IF islower(ch) THEN TitleOf[ch] ELSE <<ch>>

\* str.lower()
str_lower(s) == [i \in 1..Len(s) |-> lower(s[i])]
\* str.capitalize(): the first character in title case, the rest lower-cased
capitalize(s) ==
    IF s = <<>> THEN <<>>
    ELSE titlecase(s[1]) \o [i \in 1..(Len(s) - 1) |-> lower(s[i + 1])]
\* str.title(): a character is lower-cased after a cased one and put in
\* title case after an uncased one or at the start; the cased characters
\* are the letters
RECURSIVE title_from(_, _)
title_from(s, i) ==
    IF i > Len(s) THEN <<>>
    ELSE (IF i > 1 /\ isalpha(s[i - 1]) THEN <<lower(s[i])>> ELSE titlecase(s[i]))
         \o title_from(s, i + 1)
title(s) == title_from(s, 1)
\* str.strip()
strip(s) ==
    LET keep == {i \in 1..Len(s) : ~isspace(s[i])}
    IN  IF keep = {} THEN <<>>
        ELSE LET lo == CHOOSE i \in keep : \A j \in keep : i <= j
                 hi == CHOOSE i \in keep : \A j \in keep : j <= i
             IN  SubSeq(s, lo, hi)
\* str.split(): the maximal runs of non-whitespace characters, in order
RECURSIVE split(_)
split(s) ==
    IF s = <<>> THEN <<>>
    ELSE IF isspace(Head(s)) THEN split(Tail(s))
    ELSE LET stops == {i \in 1..Len(s) : isspace(s[i])}
             n == IF stops = {} THEN Len(s)
                  ELSE (CHOOSE i \in stops : \A j \in stops : i <= j) - 1
         IN  <<SubSeq(s, 1, n)>> \o split(SubSeq(s, n + 1, Len(s)))
\* keyword in text
contains(text, keyword) ==
    \E i \in 0..(Len(text) - Len(keyword)) :
        \A k \in 1..Len(keyword) : text[i + k] = keyword[k]

\* sorted(xs, key=...) / list.sort(key=...): a stable sort; keys[i] is the
\* key of xs[i]
sorted(xs, keys) ==
    LET n == Len(xs)
        rank(i) == Cardinality({j \in 1..n : \/ keys[j] < keys[i]
                                             \/ keys[j] = keys[i] /\ j < i}) + 1
    IN  [p \in 1..n |-> xs[CHOOSE i \in 1..n : rank(i) = p]]

\* The ascending enumeration of a finite set of integers
RECURSIVE ascending(_)
ascending(S) ==
    IF S = {} THEN <<>>
    ELSE LET m == CHOOSE x \in S : \A y \in S : x <= y
         IN  <<m>> \o ascending(S \ {m})

\* ------------------------------------------------------------- dates, money
\* datetime.date() of a timestamp held in hours
date(ts) == ts \div 24
\* timedelta(days=n)
timedelta(days) == days * 24
\* (a - b).days for datetimes a, b: the floor of the difference in days
days_between(a, b) == (a - b) \div 24

\* 2^k % m
RECURSIVE pow2mod(_, _)
pow2mod(k, m) == IF k = 0 THEN 1 % m ELSE (2 * pow2mod(k - 1, m)) % m
\* The number of binary places behind the point of the 53-bit float nearest
\* to num/den (0 < num): 52 - floor(log2(num/den))
RECURSIVE float_places(_, _)
float_places(num, den) ==
    IF num < den THEN float_places(2 * num, den) + 1
    ELSE IF num \div den >= 2 THEN float_places(num \div 2, den) - 1
    ELSE 52
\* The sign of  float(num/den) - num/den  (0 < num): the quotient is rounded
\* to 53 significant bits, ties to the even significand
float_error(num, den) ==
    LET places == float_places(num, den)
        \* num * 2^places = significand * den + rest, significand's parity odd
        scaled == ((num % (2 * den)) * pow2mod(places, 2 * den)) % (2 * den)
        rest == scaled % den
        odd == scaled \div den
    IN  IF rest = 0 THEN 0
        ELSE IF 2 * rest < den THEN -1
        ELSE IF 2 * rest > den THEN 1
        ELSE IF odd = 1 THEN 1 ELSE -1
\* round(num/den, 2) in hundredths: the quotient is a float (sum(...) of whole
\* amounts is exact, the division rounds once), and round() takes the
\* hundredth nearest to that float, so a quotient that lies halfway between
\* two hundredths goes the way its float went, and to the even hundredth
\* when the float is exact
RECURSIVE round2(_, _)
round2(num, den) ==
    IF num < 0 THEN 0 - round2(0 - num, den)
    ELSE
    LET n == 100 * num
        q == n \div den
        r == n % den
    IN  IF 2 * r < den THEN q
        ELSE IF 2 * r > den THEN q + 1
        ELSE LET error == float_error(num, den)
             IN  IF error < 0 THEN q
                 ELSE IF error > 0 THEN q + 1
                 ELSE IF q % 2 = 0 THEN q ELSE q + 1
\* (mutation of round2_abs: the sign kept)
round2_signed(num, den) == round2(num, den)
\* round(abs(num/den), 2)
round2_abs(num, den) == round2(IF num < 0 THEN -num ELSE num, den)

\* ------------------------------------------------------------ enumerations
ACTIVE == "active"
CANCELLED == "cancelled"
CANCEL == "cancel"
RENEW == "renew"
None == 0

MinInterval == 27
MaxInterval == 33
CycleDays == 30
RenewDays == 30
ReminderDays == 7
DefaultHorizon == 14

\* ------------------------------------------------------------------ state
\* threads holds the register_transaction calls that run side by side in
\* the request handlers' worker threads (see "concurrent callers" below); it
\* stays as constructed while calls are made one at a time
\* subscriptions and subscription_keys are the dict self._subscriptions: its
\* values by key, and its keys in insertion order
VARIABLES transactions, emails, subscriptions, subscription_keys, saved_total, sequence,
          ndecisions, last, threads
vars == <<transactions, emails, subscriptions, subscription_keys, saved_total, sequence,
          ndecisions, last, threads>>

\* Static helpers of SubscriptionManager
derive_provider_name(reference) ==
    LET cleaned == [i \in 1..Len(reference) |->
                        IF isalpha(reference[i]) \/ isspace(reference[i])
                        THEN reference[i] ELSE " "]
        tokens == split(cleaned)
    IN  IF tokens # <<>> THEN capitalize(tokens[1]) ELSE title(strip(reference))

RECURSIVE total_amount(_)
total_amount(records) ==
    IF records = <<>> THEN 0 ELSE Head(records).amount + total_amount(Tail(records))
\* (mutation of average_amount: the first record's amount in place of the mean)
average_amount_of_first(records) == [num |-> records[1].amount, den |-> 1]
\* sum(...) / len(records), kept as the exact quotient
average_amount(records) == [num |-> total_amount(records), den |-> Len(records)]

normalize_description(description) ==
    LET kept == SelectSeq(description, isalnum)
    IN  [i \in 1..Len(kept) |-> lower(kept[i])]

RenewKeywords == << <<"r","e","n","e","w">>, <<"f","ö","r","n","y","a">>,
                    <<"f","o","r","n","y","e","l","s","e">>, <<"r","e","n","e","w","a","l">> >>
PriceKeywords == << <<"p","r","i","c","e"," ","i","n","c","r","e","a","s","e">>,
                    <<"h","ö","j","s">>, <<"h","i","g","h","e","r"," ","r","a","t","e">> >>
classify_email(email) ==
    LET text == str_lower(email.subject \o <<" ">> \o email.body)
    IN  (IF \E k \in 1..Len(RenewKeywords) : contains(text, RenewKeywords[k])
         THEN <<"renewal_notice">> ELSE <<>>)
        \o
        (IF \E k \in 1..Len(PriceKeywords) : contains(text, PriceKeywords[k])
         THEN <<"price_increase">> ELSE <<>>)

\* ------------------------------------------------------------ record types
TransactionRecord(description_key, description, amount, timestamp) ==
    [description_key |-> description_key, description |-> description,
     amount |-> amount, timestamp |-> timestamp, subscription_id |-> None]

EmailRecord(subject, body, timestamp, tags) ==
    [subject |-> subject, body |-> body, timestamp |-> timestamp, tags |-> tags]

Subscription(id, provider, reference, monthly_cost, next_renewal_date, status, last_transaction_at) ==
    [id |-> id, provider |-> provider, reference |-> reference,
     monthly_cost |-> monthly_cost, next_renewal_date |-> next_renewal_date,
     status |-> status, last_transaction_at |-> last_transaction_at, notes |-> <<>>]

\* self._subscriptions[key] = value
dict_set(d, key, value) ==
    [k \in (DOMAIN d) \cup {key} |-> IF k = key THEN value ELSE d[k]]
\* the key order after self._subscriptions[key] = value: a key the dict holds
\* keeps its place, a new key goes last
dict_keys_set(keys, key) == IF key \in Range(keys) THEN keys ELSE Append(keys, key)
\* the key order of d after a call that began with the order keys; a call
\* stores at most one new key (services.py:136)
dict_keys(keys, d) ==
    LET new == (DOMAIN d) \ Range(keys)
    IN  IF new = {} THEN keys ELSE dict_keys_set(keys, CHOOSE k \in new : TRUE)
\* list(self._subscriptions.values()): the values in insertion order
dict_values(d, keys) == [p \in 1..Len(keys) |-> d[keys[p]]]

\* ------------------------------------------------------- the matching engine
\* (mutation of in_cadence: the lower limit excluded)
in_cadence_exclusive(interval) == MinInterval < interval /\ interval <= MaxInterval
\* 27 <= interval <= 33
in_cadence(interval) == MinInterval <= interval /\ interval <= MaxInterval

\* (mutation of similar_transactions: the sort by timestamp left out)
similar_transactions_unsorted(txs, key) ==
    ascending({i \in 1..Len(txs) : txs[i].description_key = key})
\* (mutation of similar_transactions: the key not compared)
similar_transactions_any_key(txs, key) ==
    LET same == ascending(1..Len(txs))
    IN  sorted(same, [p \in 1..Len(same) |-> txs[same[p]].timestamp])
\* similar = [tx for tx in self._transactions if tx.description_key == key],
\* sorted by timestamp; held as positions in the ledger, because the list
\* holds the ledger's own record objects
similar_transactions(txs, key) ==
    LET same == ascending({i \in 1..Len(txs) : txs[i].description_key = key})
    IN  sorted(same, [p \in 1..Len(same) |-> txs[same[p]].timestamp])

\* (mutation of next_sequence: the counter advanced twice)
next_sequence_twice(seq) == seq + 2
\* self._sequence += 1
next_sequence(seq) == seq + 1

\* (mutation of link_all: records that already carry a link keep it)
link_all_unlinked_only(txs, similar, id) ==
    [i \in 1..Len(txs) |->
        IF i \in Range(similar) /\ txs[i].subscription_id = None
        THEN [txs[i] EXCEPT !.subscription_id = id]
        ELSE txs[i]]
\* for tx in transactions: tx.subscription_id = subscription.id
link_all(txs, similar, id) ==
    [i \in 1..Len(txs) |->
        IF i \in Range(similar)
        THEN [txs[i] EXCEPT !.subscription_id = id]
        ELSE txs[i]]

create_subscription_from_transaction(txs, subs, seq, similar) ==
    LET records == [p \in 1..Len(similar) |-> txs[similar[p]]]
        latest == records[Len(records)]
        provider == derive_provider_name(latest.description)
        amount == average_amount(records)
        next_renewal == date(latest.timestamp + timedelta(CycleDays))
        id == next_sequence(seq)
        subscription == Subscription(id, provider, latest.description,
                                     round2_abs(amount.num, amount.den),
                                     next_renewal, ACTIVE, latest.timestamp)
    IN  [transactions |-> link_all(txs, similar, subscription.id),
         subscriptions |-> dict_set(subs, subscription.id, subscription),
         sequence |-> id,
         id |-> subscription.id]

\* (mutation of recomputed_copy: the status set back to Active)
recomputed_copy_active(subscription, monthly_cost, next_renewal, last_transaction_at) ==
    [subscription EXCEPT !.monthly_cost = monthly_cost,
                         !.next_renewal_date = next_renewal,
                         !.last_transaction_at = last_transaction_at,
                         !.status = ACTIVE]
\* model_copy(update={"monthly_cost": ..., "next_renewal_date": ...,
\*                    "last_transaction_at": ...})
recomputed_copy(subscription, monthly_cost, next_renewal, last_transaction_at) ==
    [subscription EXCEPT !.monthly_cost = monthly_cost,
                         !.next_renewal_date = next_renewal,
                         !.last_transaction_at = last_transaction_at]

update_subscription_from_transactions(txs, subs, subscription_id) ==
    LET linked(tx) == tx.subscription_id = subscription_id
        subscription_transactions == SelectSeq(txs, linked)
        n == Len(subscription_transactions)
        \* max(..., key=timestamp): the first record with the greatest timestamp
        latest == subscription_transactions[
                      CHOOSE i \in 1..n :
                          /\ \A j \in 1..n : subscription_transactions[j].timestamp
                                               <= subscription_transactions[i].timestamp
                          /\ \A j \in 1..(i - 1) : subscription_transactions[j].timestamp
                                               < subscription_transactions[i].timestamp]
        avg_amount == average_amount(subscription_transactions)
        next_renewal == date(latest.timestamp + timedelta(CycleDays))
    IN  dict_set(subs, subscription_id,
                 recomputed_copy(subs[subscription_id],
                                 round2_abs(avg_amount.num, avg_amount.den),
                                 next_renewal, latest.timestamp))

\* record is the ledger's last entry (register_transaction has appended it)
link_transaction(txs, subs, seq) ==
    LET record == txs[Len(txs)]
        similar == similar_transactions(txs, record.description_key)
        unchanged == [transactions |-> txs, subscriptions |-> subs, sequence |-> seq,
                      ret |-> <<>>]
    IN  IF Len(similar) < 2 THEN unchanged
        ELSE
        LET latest == txs[similar[Len(similar)]]
            previous == txs[similar[Len(similar) - 1]]
            interval == days_between(latest.timestamp, previous.timestamp)
        IN  IF in_cadence(interval)
            THEN LET created == create_subscription_from_transaction(txs, subs, seq, similar)
                     reuse == previous.subscription_id # None
                     subscription_id == IF reuse THEN previous.subscription_id ELSE created.id
                     txs1 == IF reuse THEN txs ELSE created.transactions
                     subs1 == IF reuse THEN subs ELSE created.subscriptions
                     seq1 == IF reuse THEN seq ELSE created.sequence
                     txs2 == [txs1 EXCEPT ![Len(txs)].subscription_id = subscription_id]
                     subs2 == update_subscription_from_transactions(txs2, subs1, subscription_id)
                 IN  [transactions |-> txs2, subscriptions |-> subs2, sequence |-> seq1,
                      ret |-> <<subs2[subscription_id]>>]
            ELSE unchanged

register_transaction(txs, subs, seq, tx) ==
    LET description_key == normalize_description(tx.description)
        record == TransactionRecord(description_key, tx.description, tx.amount, tx.timestamp)
    IN  link_transaction(Append(txs, record), subs, seq)

\* ------------------------------------------------- the email correlator
\* (mutation of reminder_date: the seven days left out)
reminder_date_same_day(email) == date(email.timestamp)
\* (email.timestamp + timedelta(days=7)).date()
reminder_date(email) == date(email.timestamp + timedelta(ReminderDays))
\* f"Price increase detected on {email.timestamp.date()}"
price_increase_note(email) == <<"Price increase detected on", date(email.timestamp)>>

\* (mutation of maybe_update_subscription_from_email: the renewal effect
\* applied before the price-increase effect)
maybe_update_subscription_renewal_first(subs, email) ==
    LET provider == derive_provider_name(email.subject)
        matches == {k \in DOMAIN subs : str_lower(subs[k].provider) = str_lower(provider)}
        subs1 == IF "renewal_notice" \in Range(email.tags)
                 THEN [k \in DOMAIN subs |->
                          IF k \in matches
                          THEN [subs[k] EXCEPT !.next_renewal_date = reminder_date(email),
                                               !.notes = <<"Renewal reminder synced from email">>]
                          ELSE subs[k]]
                 ELSE subs
    IN  IF "price_increase" \in Range(email.tags)
        THEN [k \in DOMAIN subs1 |-> [subs1[k] EXCEPT !.notes = price_increase_note(email)]]
        ELSE subs1

maybe_update_subscription_from_email(subs, email) ==
    LET note == price_increase_note(email)
        subs1 == IF "price_increase" \in Range(email.tags)
                 THEN [k \in DOMAIN subs |-> [subs[k] EXCEPT !.notes = note]]
                 ELSE subs
        provider == derive_provider_name(email.subject)
        matches == {k \in DOMAIN subs1 : str_lower(subs1[k].provider) = str_lower(provider)}
        next_date == reminder_date(email)
    IN  IF "renewal_notice" \in Range(email.tags)
        THEN [k \in DOMAIN subs1 |->
                 IF k \in matches
                 THEN [subs1[k] EXCEPT !.next_renewal_date = next_date,
                                       !.notes = <<"Renewal reminder synced from email">>]
                 ELSE subs1[k]]
        ELSE subs1

ingest_email(mails, subs, email) ==
    LET tags == classify_email(email)
        record == EmailRecord(email.subject, email.body, email.timestamp, tags)
    IN  [emails |-> Append(mails, record),
         subscriptions |-> maybe_update_subscription_from_email(subs, record),
         ret |-> <<record>>]

\* ------------------------------------------------- the decision processor
\* (mutation of cancel_saving: the status not looked at)
cancel_saving_always(subscription) == subscription.monthly_cost
\* if subscription.status is not CANCELLED: self._saved_total += monthly_cost
cancel_saving(subscription) ==
    IF subscription.status # CANCELLED THEN subscription.monthly_cost ELSE 0

\* (mutation of cancelled_copy: the renewal date cleared to the epoch)
cancelled_copy_dateless(subscription) ==
    [subscription EXCEPT !.status = CANCELLED,
                         !.next_renewal_date = 0,
                         !.notes = <<"Cancelled via assistant">>]
\* model_copy(update={"status": CANCELLED, "notes": "Cancelled via assistant"})
cancelled_copy(subscription) ==
    [subscription EXCEPT !.status = CANCELLED,
                         !.notes = <<"Cancelled via assistant">>]
\* (mutation of renewed_copy: the status left as it was)
renewed_copy_same_status(subscription) ==
    [subscription EXCEPT !.next_renewal_date = @ + RenewDays,
                         !.notes = <<"Renewed via assistant">>]
\* model_copy(update={"status": ACTIVE, "next_renewal_date":
\*     subscription.next_renewal_date + timedelta(days=30),
\*     "notes": "Renewed via assistant"})
renewed_copy(subscription) ==
    [subscription EXCEPT !.status = ACTIVE,
                         !.next_renewal_date = @ + RenewDays,
                         !.notes = <<"Renewed via assistant">>]

\* subscription = self._subscriptions[subscription_id] raises KeyError for an
\* unknown key, before anything is assigned
apply_decision(subs, saved, subscription_id, decision) ==
    IF subscription_id \notin DOMAIN subs
    THEN [subscriptions |-> subs, saved_total |-> saved, status |-> "KeyError", ret |-> <<>>]
    ELSE
    LET subscription == subs[subscription_id]
        saved1 == IF decision = CANCEL THEN saved + cancel_saving(subscription) ELSE saved
        updated == IF decision = CANCEL
                   THEN cancelled_copy(subscription)
                   ELSE renewed_copy(subscription)
    IN  [subscriptions |-> dict_set(subs, subscription_id, updated),
         saved_total |-> saved1,
         status |-> "ok",
         ret |-> <<updated>>]

\* ------------------------------------------------- the dashboard
\* (mutation of saved_total_property: rounded to whole units)
saved_total_property_whole(saved) == 100 * round2(saved, 10000)
\* the saved_total property: round(self._saved_total, 2)
saved_total_property(saved) == round2(saved, 100)

RECURSIVE total_cost(_)
total_cost(subs) ==
    IF subs = <<>> THEN 0 ELSE Head(subs).monthly_cost + total_cost(Tail(subs))

\* (mutation of is_active: the status not looked at)
is_active_any(s) == s.status \in {ACTIVE, CANCELLED}
is_active(s) == s.status = ACTIVE
is_cancelled(s) == s.status = CANCELLED
renewal_date_of(s) == s.next_renewal_date

\* (mutation of upcoming_renewals: the sort left out)
upcoming_renewals_unsorted(active, upcoming_cutoff) ==
    LET due(s) == s.next_renewal_date <= upcoming_cutoff
    IN  SelectSeq(active, due)
\* sorted([s for s in active if s.next_renewal_date <= upcoming_cutoff],
\*        key=lambda s: s.next_renewal_date)
upcoming_renewals(active, upcoming_cutoff) ==
    LET due(s) == s.next_renewal_date <= upcoming_cutoff
        upcoming == SelectSeq(active, due)
    IN  sorted(upcoming, [p \in 1..Len(upcoming) |-> renewal_date_of(upcoming[p])])

\* services.py:88-100: the summary, from the lists active and cancelled
DashboardSummary(active, cancelled, saved, horizon_days, today) ==
    LET upcoming_cutoff == today + horizon_days
    IN  [active_subscriptions |-> Len(active),
         cancelled_subscriptions |-> Len(cancelled),
         monthly_commitment |-> round2(total_cost(active), 100),
         total_savings |-> saved_total_property(saved),
         upcoming_renewals |-> upcoming_renewals(active, upcoming_cutoff)]

dashboard(subs, keys, saved, horizon_days, today) ==
    LET active == SelectSeq(dict_values(subs, keys), is_active)
        cancelled == SelectSeq(dict_values(subs, keys), is_cancelled)
    IN  DashboardSummary(active, cancelled, saved, horizon_days, today)

\* ------------------------------------------------------------------ inputs
\* Statement lines (description, amount): "Hulu+ 4" and "hu LU4" share the
\* key "hulu4" and derive the providers "Hulu" and "Hu"; "Max" is a cluster
\* of its own.
StatementLines ==
    { [description |-> <<"H","u","l","u","+"," ","4">>, amount |-> -99],
      [description |-> <<"h","u"," ","L","U","4">>, amount |-> -100],
      [description |-> <<"M","a","x">>, amount |-> -99] }
\* hours: day 0, day 26.5, day 33.5, day 60.5
Timestamps == {0, 636, 804, 1452}
TransactionIn == {[description |-> l.description, amount |-> l.amount, timestamp |-> ts] :
                      l \in StatementLines, ts \in Timestamps}

\* "HULU" / "Renew"              renewal_notice, provider "Hulu"
\* "Price" / "Increase renewal"  both tags ("price increase" spans subject and body)
\* "Hu höjs" / "Förnya"          both tags, provider "Hu"
\* "Max" / "Hi"                  no tag
EmailTexts ==
    { [subject |-> <<"H","U","L","U">>, body |-> <<"R","e","n","e","w">>],
      [subject |-> <<"P","r","i","c","e">>,
       body |-> <<"I","n","c","r","e","a","s","e"," ","r","e","n","e","w","a","l">>],
      [subject |-> <<"H","u"," ","h","ö","j","s">>, body |-> <<"F","ö","r","n","y","a">>],
      [subject |-> <<"M","a","x">>, body |-> <<"H","i">>] }
\* hours: day 80.5
EmailTimestamps == {1932}
EmailIn == {[subject |-> t.subject, body |-> t.body, timestamp |-> ts] :
                t \in EmailTexts, ts \in EmailTimestamps}

Decisions == {CANCEL, RENEW}
\* identifiers a caller may name; at most MaxTx - 1 subscriptions exist
SubscriptionIds == 1..MaxTx
\* datetime.utcnow().date() at the time of a dashboard call
Todays == {80}
Horizons == {0, DefaultHorizon}

\* ------------------------------------------------------ concurrent callers
\* The request handlers are plain functions (main.py:21-23), which the
\* framework runs in worker threads, all on the one module-level manager
\* (services.py:199, main.py:17-18); nothing in the source takes a lock.
\* A thread's call is followed statement by statement; a loop over a shared
\* list takes one element per step. The list self._transactions holds
\* references: a record object is named by the call that made it.
\* Threads are the calls that run side by side; Earlier are calls that were
\* made one at a time before them.
Threads == {1, 2}
Earlier == {3, 4, 5}
Calls == Threads \cup Earlier
NoSubscription == Subscription(None, <<>>, <<>>, 0, 0, ACTIVE, 0)
NoRecord == TransactionRecord(<<>>, <<>>, 0, 0)
NoEmail == EmailRecord(<<>>, <<>>, 0, <<>>)
\* the locals of one call of a handler and of what it calls. op is the
\* handler; it and used are the position and the size that an iterator over
\* self._subscriptions.values() holds
Frame ==
    [pc |-> "start", op |-> "", record |-> NoRecord, similar |-> <<>>, j |-> 1,
     subscription_id |-> None, loaded |-> 0, subscription |-> NoSubscription,
     i |-> 1, linked |-> <<>>, copy |-> NoSubscription,
     decision |-> "", email |-> NoEmail, horizon_days |-> 0, today |-> 0,
     it |-> 1, used |-> 0, ids |-> {}, active |-> <<>>, cancelled |-> <<>>,
     grouped |-> <<>>, status |-> "", ret |-> <<>>]
\* objects: the record objects self._transactions holds, in list order;
\* overlap: a call has begun while another one was under way
NoThreads == [frames |-> [t \in Calls |-> Frame], objects |-> <<>>, overlap |-> FALSE]

\* ----------------------------------------------------------------- actions
\* What the last call was and what it gave back; args holds the inputs that
\* the result does not repeat (the dashboard's horizon and clock)
Response(op, args, status, ret) == [op |-> op, args |-> args, status |-> status, ret |-> ret]

\* SubscriptionManager.__init__
Init ==
    /\ transactions = <<>>
    /\ emails = <<>>
    /\ subscriptions = <<>>
    /\ subscription_keys = <<>>
    /\ saved_total = 0
    /\ sequence = 0
    /\ ndecisions = 0
    /\ last = Response("init", <<>>, "ok", <<>>)
    /\ threads = NoThreads

\* In Spec and SpecClusters a call runs from its first statement to its
\* last with no other call under way: each action below is a whole call.
\* SpecConcurrent and SpecHandlers run the same code statement by statement
\* in worker threads, where calls overlap; HandlersOneAtATime states that
\* the two agree on calls that do not overlap.

\* What a call of register_transaction leaves behind: r holds the ledger,
\* the dict and the counter as the call has made them, and what it returns
Registered(r) ==
    /\ transactions' = r.transactions
    /\ subscriptions' = r.subscriptions
    /\ subscription_keys' = dict_keys(subscription_keys, r.subscriptions)
    /\ sequence' = r.sequence
    /\ last' = Response("register_transaction", <<>>, "ok", r.ret)
\* One call of register_transaction(tx)
RegisterCall(tx) ==
    /\ Registered(register_transaction(transactions, subscriptions, sequence, tx))
    /\ UNCHANGED <<emails, saved_total, ndecisions, threads>>

\* One call of ingest_email(email)
EmailCall(email) ==
    /\ LET r == ingest_email(emails, subscriptions, email)
       IN  /\ emails' = r.emails
           /\ subscriptions' = r.subscriptions
           /\ last' = Response("ingest_email", <<>>, "ok", r.ret)
    /\ UNCHANGED <<transactions, subscription_keys, saved_total, sequence, ndecisions, threads>>

\* POST /transactions
RegisterTransaction ==
    \E tx \in TransactionIn :
        /\ Len(transactions) < MaxTx
        /\ RegisterCall(tx)

\* POST /emails
IngestEmail ==
    \E email \in EmailIn :
        /\ Len(emails) < MaxEmails
        /\ Len(emails) + ndecisions < MaxCalls
        /\ EmailCall(email)

\* One call of apply_decision(subscription_id, decision), from the read of
\* line 67 to the store of line 82 (DecisionRead, SavedLoad, SavedStore and
\* DecisionStore are its statements). A call counts against MaxCalls when
\* it succeeds
DecisionStep(op, subscription_id, decision) ==
    LET r == apply_decision(subscriptions, saved_total, subscription_id, decision)
    IN  /\ r.status = "ok" => Len(emails) + ndecisions < MaxCalls
        /\ subscriptions' = r.subscriptions
        /\ saved_total' = r.saved_total
        /\ last' = Response(op, IF r.status = "ok" THEN <<decision>> ELSE <<>>, r.status, r.ret)
        /\ ndecisions' = IF r.status = "ok" THEN ndecisions + 1 ELSE ndecisions
        /\ UNCHANGED <<transactions, emails, subscription_keys, sequence, threads>>

\* (mutation of HttpApplyDecision: the membership check left out)
HttpApplyDecisionUnchecked ==
    \E subscription_id \in SubscriptionIds, decision \in Decisions :
        DecisionStep("http_apply_decision", subscription_id, decision)
\* POST /subscriptions/{subscription_id}/decision, the whole request
\* (StartHttpDecision, IdsNext and IdsEnd are the statements of the handler)
HttpApplyDecision ==
    \E subscription_id \in SubscriptionIds, decision \in Decisions :
        LET ids == {subscriptions[k].id : k \in DOMAIN subscriptions}
        IN  IF subscription_id \notin ids
            THEN /\ last' = Response("http_apply_decision", <<>>, "404", <<>>)
                 /\ UNCHANGED <<transactions, emails, subscriptions, subscription_keys, saved_total,
                                sequence, ndecisions, threads>>
            ELSE DecisionStep("http_apply_decision", subscription_id, decision)

\* SubscriptionManager.apply_decision called directly
ApplyDecision ==
    \E subscription_id \in SubscriptionIds, decision \in Decisions :
        DecisionStep("apply_decision", subscription_id, decision)

\* GET /dashboard (horizon_days = 14) and SubscriptionManager.dashboard(horizon_days)
Dashboard ==
    \E horizon_days \in Horizons, today \in Todays :
        /\ last' = Response("dashboard", <<horizon_days, today>>, "ok",
                            <<dashboard(subscriptions, subscription_keys, saved_total, horizon_days, today)>>)
        /\ UNCHANGED <<transactions, emails, subscriptions, subscription_keys, saved_total, sequence,
                       ndecisions, threads>>

Next ==
    \/ RegisterTransaction
    \/ IngestEmail
    \/ HttpApplyDecision
    \/ ApplyDecision
    \/ Dashboard

Spec == Init /\ [][Next]_vars

\* ------------------------------------------------ two clusters, four charges
\* The same engine with fewer statement lines and a ledger of up to
\* MaxClusterTx records, so that two clusters ("hu LU4", provider "Hu", and
\* "Max", provider "Max") can each get a subscription.
ClusterLines ==
    { [description |-> <<"h","u"," ","L","U","4">>, amount |-> -100],
      [description |-> <<"M","a","x">>, amount |-> -99] }
\* hours: day 0, day 33.5
ClusterTimestamps == {0, 804}
ClusterTransactionIn ==
    {[description |-> l.description, amount |-> l.amount, timestamp |-> ts] :
        l \in ClusterLines, ts \in ClusterTimestamps}
\* "Hu höjs" / "Förnya"   both tags, provider "Hu"
\* "Max höjs" / "Hi"      price_increase only
ClusterEmailTexts ==
    { [subject |-> <<"H","u"," ","h","ö","j","s">>, body |-> <<"F","ö","r","n","y","a">>],
      [subject |-> <<"M","a","x"," ","h","ö","j","s">>, body |-> <<"H","i">>] }
ClusterEmailIn == {[subject |-> t.subject, body |-> t.body, timestamp |-> ts] :
                       t \in ClusterEmailTexts, ts \in EmailTimestamps}

\* POST /transactions
RegisterClusterTransaction ==
    \E tx \in ClusterTransactionIn :
        /\ Len(transactions) < MaxClusterTx
        /\ RegisterCall(tx)

\* POST /emails
IngestClusterEmail ==
    \E email \in ClusterEmailIn :
        /\ Len(emails) < MaxEmails
        /\ Len(emails) + ndecisions < MaxCalls
        /\ EmailCall(email)

NextClusters ==
    \/ RegisterClusterTransaction
    \/ IngestClusterEmail
    \/ HttpApplyDecision

SpecClusters == Init /\ [][NextClusters]_vars

\* ------------------------------------- register_transaction, thread by thread
\* Two worker threads each make one call of register_transaction on the
\* fresh manager. pc names the statement a call is about to run ("start":
\* the call has not begun, "done": it has ended).
ConcurrentTransactionIn ==
    {[description |-> l.description, amount |-> l.amount, timestamp |-> ts] :
        l \in StatementLines, ts \in ClusterTimestamps}

\* the record object made by thread o
object(o) == threads.frames[o].record
\* the list self._transactions by value
ledger_view(th) == [p \in 1..Len(th.objects) |-> th.frames[th.objects[p]].record]
\* a call is under way in a thread other than t
others_running(t) ==
    \E u \in Calls \ {t} : threads.frames[u].pc \notin {"start", "done"}

\* (mutation of put_last: the first entry of the list overwritten)
put_first(objects, t) == [objects EXCEPT ![1] = t]
\* self._transactions[-1] = record
put_last(objects, t) == [objects EXCEPT ![Len(objects)] = t]

\* A step of a thread: the frames and the object list it leaves
ThreadStep(frames, objects) ==
    LET th == [threads EXCEPT !.frames = frames, !.objects = objects]
    IN  /\ threads' = th
        /\ transactions' = ledger_view(th)
        /\ UNCHANGED <<emails, saved_total, ndecisions>>

\* services.py:44-51  record = TransactionRecord(...); self._transactions.append(record)
AppendCall(t, tx) ==
    LET f == threads.frames[t]
        record == TransactionRecord(normalize_description(tx.description),
                                    tx.description, tx.amount, tx.timestamp)
        th == [threads EXCEPT !.frames[t] = [f EXCEPT !.op = "register_transaction",
                                                      !.record = record, !.pc = "scan"],
                              !.objects = Append(threads.objects, t),
                              !.overlap = threads.overlap \/ others_running(t)]
    IN  /\ f.pc = "start"
        /\ threads' = th
        /\ transactions' = ledger_view(th)
        /\ UNCHANGED <<emails, subscriptions, subscription_keys, saved_total, sequence,
                       ndecisions, last>>
\* POST /transactions in a worker thread
AppendRecord(t) == \E tx \in ConcurrentTransactionIn : AppendCall(t, tx)

\* services.py:106  one element of the comprehension over self._transactions
ScanNext(t) ==
    LET f == threads.frames[t]
        o == threads.objects[f.j]
        hit == object(o).description_key = f.record.description_key
    IN  /\ f.pc = "scan"
        /\ f.j <= Len(threads.objects)
        /\ ThreadStep([threads.frames EXCEPT
                          ![t] = [f EXCEPT !.similar = IF hit THEN Append(f.similar, o)
                                                       ELSE f.similar,
                                           !.j = f.j + 1]],
                      threads.objects)
        /\ UNCHANGED <<subscriptions, subscription_keys, sequence, last>>

\* services.py:106-113, 119  the comprehension ends; sort, length and
\* interval tests (timestamps never change)
ScanEnd(t) ==
    LET f == threads.frames[t]
        similar == sorted(f.similar, [p \in 1..Len(f.similar) |-> object(f.similar[p]).timestamp])
        n == Len(similar)
        cadence == /\ n >= 2
                   /\ in_cadence(days_between(object(similar[n]).timestamp,
                                              object(similar[n - 1]).timestamp))
    IN  /\ f.pc = "scan"
        /\ f.j > Len(threads.objects)
        /\ ThreadStep([threads.frames EXCEPT
                          ![t] = [f EXCEPT !.similar = similar,
                                           !.pc = IF cadence THEN "read_link" ELSE "done",
                                           !.status = IF cadence THEN "" ELSE "ok"]],
                      threads.objects)
        /\ last' = IF cadence THEN last
                   ELSE Response("register_transaction", <<>>, "ok", <<>>)
        /\ UNCHANGED <<subscriptions, subscription_keys, sequence>>

\* services.py:114  previous.subscription_id or ...
ReadLink(t) ==
    LET f == threads.frames[t]
        previous == object(f.similar[Len(f.similar) - 1])
        reuse == previous.subscription_id # None
    IN  /\ f.pc = "read_link"
        /\ ThreadStep([threads.frames EXCEPT
                          ![t] = [f EXCEPT !.subscription_id = previous.subscription_id,
                                           !.pc = IF reuse THEN "set_link" ELSE "seq_load"]],
                      threads.objects)
        /\ UNCHANGED <<subscriptions, subscription_keys, sequence, last>>

\* services.py:126  self._sequence += 1, the read
SeqLoad(t) ==
    LET f == threads.frames[t]
    IN  /\ f.pc = "seq_load"
        /\ ThreadStep([threads.frames EXCEPT
                          ![t] = [f EXCEPT !.loaded = sequence, !.pc = "seq_store"]],
                      threads.objects)
        /\ UNCHANGED <<subscriptions, subscription_keys, sequence, last>>

\* services.py:126  self._sequence += 1, the write
SeqStore(t) ==
    LET f == threads.frames[t]
    IN  /\ f.pc = "seq_store"
        /\ sequence' = next_sequence(f.loaded)
        /\ ThreadStep([threads.frames EXCEPT ![t] = [f EXCEPT !.pc = "new_subscription"]],
                      threads.objects)
        /\ UNCHANGED <<subscriptions, subscription_keys, last>>

\* services.py:122-125, 127-135  subscription = Subscription(id=self._sequence, ...)
NewSubscription(t) ==
    LET f == threads.frames[t]
        records == [p \in 1..Len(f.similar) |-> object(f.similar[p])]
        latest == records[Len(records)]
        amount == average_amount(records)
        subscription == Subscription(sequence, derive_provider_name(latest.description),
                                     latest.description,
                                     round2_abs(amount.num, amount.den),
                                     date(latest.timestamp + timedelta(CycleDays)),
                                     ACTIVE, latest.timestamp)
    IN  /\ f.pc = "new_subscription"
        /\ ThreadStep([threads.frames EXCEPT
                          ![t] = [f EXCEPT !.subscription = subscription,
                                           !.pc = "store_subscription"]],
                      threads.objects)
        /\ UNCHANGED <<subscriptions, subscription_keys, sequence, last>>

\* services.py:136  self._subscriptions[subscription.id] = subscription
StoreSubscription(t) ==
    LET f == threads.frames[t]
    IN  /\ f.pc = "store_subscription"
        /\ subscriptions' = dict_set(subscriptions, f.subscription.id, f.subscription)
        /\ subscription_keys' = dict_keys_set(subscription_keys, f.subscription.id)
        /\ ThreadStep([threads.frames EXCEPT ![t] = [f EXCEPT !.pc = "link_loop", !.i = 1]],
                      threads.objects)
        /\ UNCHANGED <<sequence, last>>

\* services.py:137-139, 114  one tx.subscription_id = subscription.id; after
\* the last one the id is returned and assigned to subscription_id
LinkLoop(t) ==
    LET f == threads.frames[t]
        o == f.similar[f.i]
        linked == [threads.frames EXCEPT ![o].record.subscription_id = f.subscription.id]
        more == f.i < Len(f.similar)
    IN  /\ f.pc = "link_loop"
        /\ ThreadStep([linked EXCEPT
                          ![t].i = f.i + 1,
                          ![t].subscription_id = IF more THEN f.subscription_id
                                                 ELSE f.subscription.id,
                          ![t].pc = IF more THEN "link_loop" ELSE "set_link"],
                      threads.objects)
        /\ UNCHANGED <<subscriptions, subscription_keys, sequence, last>>

\* services.py:115  record.subscription_id = subscription_id
SetLink(t) ==
    LET f == threads.frames[t]
    IN  /\ f.pc = "set_link"
        /\ ThreadStep([threads.frames EXCEPT
                          ![t] = [f EXCEPT !.record.subscription_id = f.subscription_id,
                                           !.pc = "put_last"]],
                      threads.objects)
        /\ UNCHANGED <<subscriptions, subscription_keys, sequence, last>>

\* services.py:116  self._transactions[-1] = record
PutLast(t) ==
    LET f == threads.frames[t]
    IN  /\ f.pc = "put_last"
        /\ ThreadStep([threads.frames EXCEPT
                          ![t] = [f EXCEPT !.pc = "update_scan", !.j = 1, !.linked = <<>>]],
                      put_last(threads.objects, t))
        /\ UNCHANGED <<subscriptions, subscription_keys, sequence, last>>

\* services.py:142-144  one element of the comprehension over self._transactions
UpdateScanNext(t) ==
    LET f == threads.frames[t]
        tx == object(threads.objects[f.j])
        hit == tx.subscription_id = f.subscription_id
    IN  /\ f.pc = "update_scan"
        /\ f.j <= Len(threads.objects)
        /\ ThreadStep([threads.frames EXCEPT
                          ![t] = [f EXCEPT !.linked = IF hit THEN Append(f.linked, tx)
                                                      ELSE f.linked,
                                           !.j = f.j + 1]],
                      threads.objects)
        /\ UNCHANGED <<subscriptions, subscription_keys, sequence, last>>

\* services.py:142-147  the comprehension ends; max() of an empty list
\* raises ValueError, which ends the call
UpdateScanEnd(t) ==
    LET f == threads.frames[t]
        empty == f.linked = <<>>
    IN  /\ f.pc = "update_scan"
        /\ f.j > Len(threads.objects)
        /\ ThreadStep([threads.frames EXCEPT
                          ![t] = [f EXCEPT !.pc = IF empty THEN "done" ELSE "update_copy",
                                           !.status = IF empty THEN "ValueError" ELSE ""]],
                      threads.objects)
        /\ last' = IF empty THEN Response("register_transaction", <<>>, "ValueError", <<>>)
                   ELSE last
        /\ UNCHANGED <<subscriptions, subscription_keys, sequence>>

\* services.py:145-152  latest, avg_amount, next_renewal and
\* self._subscriptions[subscription_id].model_copy(update=...)
UpdateCopy(t) ==
    LET f == threads.frames[t]
        n == Len(f.linked)
        latest == f.linked[CHOOSE i \in 1..n :
                               /\ \A j \in 1..n : f.linked[j].timestamp <= f.linked[i].timestamp
                               /\ \A j \in 1..(i - 1) :
                                      f.linked[j].timestamp < f.linked[i].timestamp]
        avg_amount == average_amount(f.linked)
        next_renewal == date(latest.timestamp + timedelta(CycleDays))
    IN  /\ f.pc = "update_copy"
        /\ ThreadStep([threads.frames EXCEPT
                          ![t] = [f EXCEPT
                                     !.copy = recomputed_copy(
                                                  subscriptions[f.subscription_id],
                                                  round2_abs(avg_amount.num, avg_amount.den),
                                                  next_renewal, latest.timestamp),
                                     !.pc = "update_store"]],
                      threads.objects)
        /\ UNCHANGED <<subscriptions, subscription_keys, sequence, last>>

\* services.py:153  self._subscriptions[subscription_id] = subscription
UpdateStore(t) ==
    LET f == threads.frames[t]
    IN  /\ f.pc = "update_store"
        /\ subscriptions' = dict_set(subscriptions, f.subscription_id, f.copy)
        /\ subscription_keys' = dict_keys_set(subscription_keys, f.subscription_id)
        /\ ThreadStep([threads.frames EXCEPT ![t] = [f EXCEPT !.pc = "return"]],
                      threads.objects)
        /\ UNCHANGED <<sequence, last>>

\* services.py:118  return self._subscriptions[subscription_id]
Return(t) ==
    LET f == threads.frames[t]
        ret == <<subscriptions[f.subscription_id]>>
    IN  /\ f.pc = "return"
        /\ ThreadStep([threads.frames EXCEPT
                          ![t] = [f EXCEPT !.pc = "done", !.status = "ok", !.ret = ret]],
                      threads.objects)
        /\ last' = Response("register_transaction", <<>>, "ok", ret)
        /\ UNCHANGED <<subscriptions, subscription_keys, sequence>>

NextConcurrent ==
    \E t \in Threads :
        \/ AppendRecord(t)
        \/ ScanNext(t)
        \/ ScanEnd(t)
        \/ ReadLink(t)
        \/ SeqLoad(t)
        \/ SeqStore(t)
        \/ NewSubscription(t)
        \/ StoreSubscription(t)
        \/ LinkLoop(t)
        \/ SetLink(t)
        \/ PutLast(t)
        \/ UpdateScanNext(t)
        \/ UpdateScanEnd(t)
        \/ UpdateCopy(t)
        \/ UpdateStore(t)
        \/ Return(t)

SpecConcurrent == Init /\ [][NextConcurrent]_vars

\* ------------------------------------------- every handler, thread by thread
\* The other handlers followed the same way. The calls in Earlier are
\* POST /transactions requests made one at a time; after them each of the
\* two worker threads makes one call, of any handler, and the two calls run
\* side by side. A loop over self._subscriptions.values() holds an iterator:
\* the size of the dict when the iterator was made (used) and a position in
\* the insertion order (it). Each next() compares the size first and raises
\* RuntimeError ("dictionary changed size during iteration") when it
\* differs; nothing in the source catches it, so it ends the call.

\* the charges of the earlier requests: "hu LU4" on day 0 and on day 33.5
\* (a subscription, provider "Hu"), then "Max" on day 0
EarlierTransactionIn ==
    [c \in Earlier |->
        IF c = 5
        THEN [description |-> <<"M","a","x">>, amount |-> -99, timestamp |-> 0]
        ELSE [description |-> <<"h","u"," ","L","U","4">>, amount |-> -100,
              timestamp |-> IF c = 3 THEN 0 ELSE 804]]
\* the charges of the worker threads: "Hulu+ 4" on day 60.5 (the key of
\* "hu LU4") and "Max" on day 33.5
HandlerTransactionIn ==
    { [description |-> <<"H","u","l","u","+"," ","4">>, amount |-> -99, timestamp |-> 1452],
      [description |-> <<"M","a","x">>, amount |-> -99, timestamp |-> 804] }
HandlerSubscriptionIds == {1, 2}
HandlerHorizons == {DefaultHorizon}

\* call c is between its first statement and its end
in_progress(c) == threads.frames[c].pc \notin {"start", "done"}
\* An earlier request is made when the one before it has ended and no
\* worker thread has begun; a worker thread begins when no earlier request
\* is under way.
may_start(c) ==
    IF c \in Earlier
    THEN /\ \A t \in Threads : threads.frames[t].pc = "start"
         /\ \A e \in Earlier \ {c} : ~in_progress(e)
         /\ \A e \in Earlier : e < c => threads.frames[e].pc = "done"
    ELSE \A e \in Earlier : ~in_progress(e)

\* A step of call t that touches no record object: the frame it leaves
CallStep(t, f) ==
    /\ threads' = [threads EXCEPT !.frames[t] = f]
    /\ UNCHANGED transactions
\* The first step of call t
CallBegin(t, f) ==
    /\ threads.frames[t].pc = "start"
    /\ may_start(t)
    /\ threads' = [threads EXCEPT !.frames[t] = f,
                                  !.overlap = threads.overlap \/ others_running(t)]
    /\ UNCHANGED transactions
\* the frame of a call that has ended
ended(f, status, ret) == [f EXCEPT !.pc = "done", !.status = status, !.ret = ret]
\* iter(self._subscriptions.values()): the frame holding a new iterator
with_iter(f, pc) == [f EXCEPT !.pc = pc, !.it = 1, !.used = Len(subscription_keys)]
\* the statements that call next() on an iterator over the dict
IterPcs == {"ids_next", "active_next", "cancelled_next", "price_next", "group_next"}
\* di_used == ma_used, the test each next() makes first
iter_same_size(f) == f.used = Len(subscription_keys)
\* the iterator has an entry left
iter_more(f) == f.it <= Len(subscription_keys)
\* the value next() gives
iter_value(f) == subscriptions[subscription_keys[f.it]]

\* POST /transactions, an earlier request or a worker thread
StartRegister(t) ==
    /\ may_start(t)
    /\ IF t \in Earlier
       THEN AppendCall(t, EarlierTransactionIn[t])
       ELSE \E tx \in HandlerTransactionIn : AppendCall(t, tx)

\* next() on an iterator over the dict after the dict has grown
IterRaise(t) ==
    LET f == threads.frames[t]
    IN  /\ f.pc \in IterPcs
        /\ ~iter_same_size(f)
        /\ CallStep(t, ended(f, "RuntimeError", <<>>))
        /\ last' = Response(f.op, <<>>, "RuntimeError", <<>>)
        /\ UNCHANGED <<emails, subscriptions, subscription_keys, saved_total, sequence,
                       ndecisions>>

\* main.py:39  ids = {sub.id for sub in get_manager().subscriptions}: the
\* view and its iterator are made
StartHttpDecision(t) ==
    \E subscription_id \in HandlerSubscriptionIds, decision \in Decisions :
        /\ t \in Threads
        /\ CallBegin(t, with_iter([threads.frames[t] EXCEPT
                                      !.op = "http_apply_decision",
                                      !.subscription_id = subscription_id,
                                      !.decision = decision, !.ids = {}],
                                  "ids_next"))
        /\ UNCHANGED <<emails, subscriptions, subscription_keys, saved_total, sequence,
                       ndecisions, last>>

\* main.py:39  one element of the set comprehension
IdsNext(t) ==
    LET f == threads.frames[t]
    IN  /\ f.pc = "ids_next"
        /\ iter_same_size(f) /\ iter_more(f)
        /\ CallStep(t, [f EXCEPT !.ids = f.ids \cup {iter_value(f).id}, !.it = f.it + 1])
        /\ UNCHANGED <<emails, subscriptions, subscription_keys, saved_total, sequence,
                       ndecisions, last>>

\* main.py:39-42  the comprehension ends; HTTPException(404) for an id not in
\* ids, else the call of apply_decision
IdsEnd(t) ==
    LET f == threads.frames[t]
        found == f.subscription_id \in f.ids
    IN  /\ f.pc = "ids_next"
        /\ iter_same_size(f) /\ ~iter_more(f)
        /\ CallStep(t, IF found THEN [f EXCEPT !.pc = "decision_read"]
                       ELSE ended(f, "404", <<>>))
        /\ last' = IF found THEN last ELSE Response(f.op, <<>>, "404", <<>>)
        /\ UNCHANGED <<emails, subscriptions, subscription_keys, saved_total, sequence,
                       ndecisions>>

\* SubscriptionManager.apply_decision called directly
StartDecision(t) ==
    \E subscription_id \in HandlerSubscriptionIds, decision \in Decisions :
        /\ t \in Threads
        /\ CallBegin(t, [threads.frames[t] EXCEPT
                            !.op = "apply_decision",
                            !.subscription_id = subscription_id,
                            !.decision = decision, !.pc = "decision_read"])
        /\ UNCHANGED <<emails, subscriptions, subscription_keys, saved_total, sequence,
                       ndecisions, last>>

\* services.py:67-69  subscription = self._subscriptions[subscription_id]
\* (KeyError for an unknown key) and the tests of decision and status
DecisionRead(t) ==
    LET f == threads.frames[t]
        known == f.subscription_id \in DOMAIN subscriptions
        subscription == subscriptions[f.subscription_id]
        saves == f.decision = CANCEL /\ subscription.status # CANCELLED
    IN  /\ f.pc = "decision_read"
        /\ CallStep(t, IF ~known THEN ended(f, "KeyError", <<>>)
                       ELSE [f EXCEPT !.subscription = subscription,
                                      !.pc = IF saves THEN "saved_load"
                                             ELSE "decision_store"])
        /\ last' = IF known THEN last ELSE Response(f.op, <<>>, "KeyError", <<>>)
        /\ UNCHANGED <<emails, subscriptions, subscription_keys, saved_total, sequence,
                       ndecisions>>

\* services.py:70  self._saved_total += subscription.monthly_cost, the read
SavedLoad(t) ==
    LET f == threads.frames[t]
    IN  /\ f.pc = "saved_load"
        /\ CallStep(t, [f EXCEPT !.loaded = saved_total, !.pc = "saved_store"])
        /\ UNCHANGED <<emails, subscriptions, subscription_keys, saved_total, sequence,
                       ndecisions, last>>

\* services.py:70  self._saved_total += subscription.monthly_cost, the write
SavedStore(t) ==
    LET f == threads.frames[t]
    IN  /\ f.pc = "saved_store"
        /\ saved_total' = f.loaded + f.subscription.monthly_cost
        /\ CallStep(t, [f EXCEPT !.pc = "decision_store"])
        /\ UNCHANGED <<emails, subscriptions, subscription_keys, sequence, ndecisions, last>>

\* services.py:71-83  the copy of the subscription that was read, stored
\* under its key and returned
DecisionStore(t) ==
    LET f == threads.frames[t]
        copy == IF f.decision = CANCEL THEN cancelled_copy(f.subscription)
                ELSE renewed_copy(f.subscription)
    IN  /\ f.pc = "decision_store"
        /\ subscriptions' = dict_set(subscriptions, f.subscription_id, copy)
        /\ subscription_keys' = dict_keys_set(subscription_keys, f.subscription_id)
        /\ ndecisions' = ndecisions + 1
        /\ CallStep(t, ended([f EXCEPT !.copy = copy], "ok", <<copy>>))
        /\ last' = Response(f.op, <<f.decision>>, "ok", <<copy>>)
        /\ UNCHANGED <<emails, saved_total, sequence>>

\* services.py:55-64, 156, 160  the record is classified and appended; with
\* no tag the call returns
StartEmail(t) ==
    \E email \in ClusterEmailIn :
        LET record == EmailRecord(email.subject, email.body, email.timestamp,
                                  classify_email(email))
            f == [threads.frames[t] EXCEPT !.op = "ingest_email", !.email = record]
            price == "price_increase" \in Range(record.tags)
            renewal == "renewal_notice" \in Range(record.tags)
        IN  /\ t \in Threads
            /\ CallBegin(t, IF price THEN [f EXCEPT !.pc = "price_iter"]
                            ELSE IF renewal THEN [f EXCEPT !.pc = "group_iter"]
                            ELSE ended(f, "ok", <<record>>))
            /\ emails' = Append(emails, record)
            /\ last' = IF price \/ renewal THEN last
                       ELSE Response("ingest_email", <<>>, "ok", <<record>>)
            /\ UNCHANGED <<subscriptions, subscription_keys, saved_total, sequence, ndecisions>>

\* services.py:157  for subscription in self._subscriptions.values(): the
\* iterator is made
PriceIter(t) ==
    LET f == threads.frames[t]
    IN  /\ f.pc = "price_iter"
        /\ CallStep(t, with_iter(f, "price_next"))
        /\ UNCHANGED <<emails, subscriptions, subscription_keys, saved_total, sequence,
                       ndecisions, last>>

\* services.py:157  the loop takes the next subscription
PriceNext(t) ==
    LET f == threads.frames[t]
    IN  /\ f.pc = "price_next"
        /\ iter_same_size(f) /\ iter_more(f)
        /\ CallStep(t, [f EXCEPT !.subscription = iter_value(f), !.it = f.it + 1,
                                 !.pc = "price_store"])
        /\ UNCHANGED <<emails, subscriptions, subscription_keys, saved_total, sequence,
                       ndecisions, last>>

\* services.py:158-159  the copy with the note, stored under subscription.id
PriceStore(t) ==
    LET f == threads.frames[t]
        copy == [f.subscription EXCEPT !.notes = price_increase_note(f.email)]
    IN  /\ f.pc = "price_store"
        /\ subscriptions' = dict_set(subscriptions, f.subscription.id, copy)
        /\ subscription_keys' = dict_keys_set(subscription_keys, f.subscription.id)
        /\ CallStep(t, [f EXCEPT !.pc = "price_next"])
        /\ UNCHANGED <<emails, saved_total, sequence, ndecisions, last>>

\* services.py:157, 160, 64  the loop ends
PriceEnd(t) ==
    LET f == threads.frames[t]
        renewal == "renewal_notice" \in Range(f.email.tags)
    IN  /\ f.pc = "price_next"
        /\ iter_same_size(f) /\ ~iter_more(f)
        /\ CallStep(t, IF renewal THEN [f EXCEPT !.pc = "group_iter"]
                       ELSE ended(f, "ok", <<f.email>>))
        /\ last' = IF renewal THEN last ELSE Response(f.op, <<>>, "ok", <<f.email>>)
        /\ UNCHANGED <<emails, subscriptions, subscription_keys, saved_total, sequence,
                       ndecisions>>

\* services.py:161-162  grouped = defaultdict(list) and the iterator of the
\* loop
GroupIter(t) ==
    LET f == threads.frames[t]
    IN  /\ f.pc = "group_iter"
        /\ CallStep(t, with_iter([f EXCEPT !.grouped = <<>>], "group_next"))
        /\ UNCHANGED <<emails, subscriptions, subscription_keys, saved_total, sequence,
                       ndecisions, last>>

\* services.py:162-163  grouped[subscription.provider.lower()].append(subscription);
\* grouped is kept as the list of what was appended, in order
GroupNext(t) ==
    LET f == threads.frames[t]
    IN  /\ f.pc = "group_next"
        /\ iter_same_size(f) /\ iter_more(f)
        /\ CallStep(t, [f EXCEPT !.grouped = Append(f.grouped, iter_value(f)),
                                 !.it = f.it + 1])
        /\ UNCHANGED <<emails, subscriptions, subscription_keys, saved_total, sequence,
                       ndecisions, last>>

\* services.py:162-166, 64  the loop ends; matches = grouped.get(provider.lower())
GroupEnd(t) ==
    LET f == threads.frames[t]
        provider == derive_provider_name(f.email.subject)
        same_provider(s) == str_lower(s.provider) = str_lower(provider)
        matches == SelectSeq(f.grouped, same_provider)
    IN  /\ f.pc = "group_next"
        /\ iter_same_size(f) /\ ~iter_more(f)
        /\ CallStep(t, IF matches = <<>> THEN ended(f, "ok", <<f.email>>)
                       ELSE [f EXCEPT !.grouped = matches, !.i = 1, !.pc = "match_store"])
        /\ last' = IF matches = <<>> THEN Response(f.op, <<>>, "ok", <<f.email>>) ELSE last
        /\ UNCHANGED <<emails, subscriptions, subscription_keys, saved_total, sequence,
                       ndecisions>>

\* services.py:167-172, 64  one subscription of matches: the copy with the
\* reminder date and the note, stored under subscription.id
MatchStore(t) ==
    LET f == threads.frames[t]
        subscription == f.grouped[f.i]
        copy == [subscription EXCEPT !.next_renewal_date = reminder_date(f.email),
                                     !.notes = <<"Renewal reminder synced from email">>]
        more == f.i < Len(f.grouped)
    IN  /\ f.pc = "match_store"
        /\ subscriptions' = dict_set(subscriptions, subscription.id, copy)
        /\ subscription_keys' = dict_keys_set(subscription_keys, subscription.id)
        /\ CallStep(t, IF more THEN [f EXCEPT !.i = f.i + 1]
                       ELSE ended(f, "ok", <<f.email>>))
        /\ last' = IF more THEN last ELSE Response(f.op, <<>>, "ok", <<f.email>>)
        /\ UNCHANGED <<emails, saved_total, sequence, ndecisions>>

\* services.py:86  the iterator of the first comprehension (main.py:47 calls
\* with the default horizon)
StartDashboard(t) ==
    \E horizon_days \in HandlerHorizons, today \in Todays :
        /\ t \in Threads
        /\ CallBegin(t, with_iter([threads.frames[t] EXCEPT
                                      !.op = "dashboard", !.horizon_days = horizon_days,
                                      !.today = today, !.active = <<>>,
                                      !.cancelled = <<>>],
                                  "active_next"))
        /\ UNCHANGED <<emails, subscriptions, subscription_keys, saved_total, sequence,
                       ndecisions, last>>

\* services.py:86  one element of active = [s for s in ... if s.status is ACTIVE]
ActiveNext(t) ==
    LET f == threads.frames[t]
        s == iter_value(f)
    IN  /\ f.pc = "active_next"
        /\ iter_same_size(f) /\ iter_more(f)
        /\ CallStep(t, [f EXCEPT !.active = IF is_active(s) THEN Append(f.active, s)
                                            ELSE f.active,
                                 !.it = f.it + 1])
        /\ UNCHANGED <<emails, subscriptions, subscription_keys, saved_total, sequence,
                       ndecisions, last>>

\* services.py:86  the first comprehension ends
ActiveEnd(t) ==
    LET f == threads.frames[t]
    IN  /\ f.pc = "active_next"
        /\ iter_same_size(f) /\ ~iter_more(f)
        /\ CallStep(t, [f EXCEPT !.pc = "cancelled_iter"])
        /\ UNCHANGED <<emails, subscriptions, subscription_keys, saved_total, sequence,
                       ndecisions, last>>

\* services.py:87  the iterator of the second comprehension
CancelledIter(t) ==
    LET f == threads.frames[t]
    IN  /\ f.pc = "cancelled_iter"
        /\ CallStep(t, with_iter(f, "cancelled_next"))
        /\ UNCHANGED <<emails, subscriptions, subscription_keys, saved_total, sequence,
                       ndecisions, last>>

\* services.py:87  one element of cancelled = [s for s in ... if s.status is CANCELLED]
CancelledNext(t) ==
    LET f == threads.frames[t]
        s == iter_value(f)
    IN  /\ f.pc = "cancelled_next"
        /\ iter_same_size(f) /\ iter_more(f)
        /\ CallStep(t, [f EXCEPT !.cancelled = IF is_cancelled(s)
                                               THEN Append(f.cancelled, s)
                                               ELSE f.cancelled,
                                 !.it = f.it + 1])
        /\ UNCHANGED <<emails, subscriptions, subscription_keys, saved_total, sequence,
                       ndecisions, last>>

\* services.py:87  the second comprehension ends
CancelledEnd(t) ==
    LET f == threads.frames[t]
    IN  /\ f.pc = "cancelled_next"
        /\ iter_same_size(f) /\ ~iter_more(f)
        /\ CallStep(t, [f EXCEPT !.pc = "dashboard_return"])
        /\ UNCHANGED <<emails, subscriptions, subscription_keys, saved_total, sequence,
                       ndecisions, last>>

\* services.py:88-100  the summary of the two lists; self.saved_total is
\* read here
DashboardReturn(t) ==
    LET f == threads.frames[t]
        ret == <<DashboardSummary(f.active, f.cancelled, saved_total, f.horizon_days,
                                  f.today)>>
    IN  /\ f.pc = "dashboard_return"
        /\ CallStep(t, ended(f, "ok", ret))
        /\ last' = Response(f.op, <<f.horizon_days, f.today>>, "ok", ret)
        /\ UNCHANGED <<emails, subscriptions, subscription_keys, saved_total, sequence,
                       ndecisions>>

NextHandlers ==
    \E t \in Calls :
        \/ StartRegister(t)
        \/ ScanNext(t)
        \/ ScanEnd(t)
        \/ ReadLink(t)
        \/ SeqLoad(t)
        \/ SeqStore(t)
        \/ NewSubscription(t)
        \/ StoreSubscription(t)
        \/ LinkLoop(t)
        \/ SetLink(t)
        \/ PutLast(t)
        \/ UpdateScanNext(t)
        \/ UpdateScanEnd(t)
        \/ UpdateCopy(t)
        \/ UpdateStore(t)
        \/ Return(t)
        \/ StartHttpDecision(t)
        \/ StartDecision(t)
        \/ StartEmail(t)
        \/ StartDashboard(t)
        \/ IterRaise(t)
        \/ IdsNext(t)
        \/ IdsEnd(t)
        \/ DecisionRead(t)
        \/ SavedLoad(t)
        \/ SavedStore(t)
        \/ DecisionStore(t)
        \/ PriceIter(t)
        \/ PriceNext(t)
        \/ PriceStore(t)
        \/ PriceEnd(t)
        \/ GroupIter(t)
        \/ GroupNext(t)
        \/ GroupEnd(t)
        \/ MatchStore(t)
        \/ ActiveNext(t)
        \/ ActiveEnd(t)
        \/ CancelledIter(t)
        \/ CancelledNext(t)
        \/ CancelledEnd(t)
        \/ DashboardReturn(t)

SpecHandlers == Init /\ [][NextHandlers]_vars

\* ======================================================================
\* Properties
\* ======================================================================
\* Steps are told apart by what they leave behind: register_transaction
\* appends to the ledger, ingest_email to the stored emails, a successful
\* decision raises ndecisions, and every call overwrites last.
RegisterStep == Len(transactions') = Len(transactions) + 1
EmailStep == Len(emails') = Len(emails) + 1
DecisionOps == {"apply_decision", "http_apply_decision"}
DecisionOk == ndecisions' = ndecisions + 1
NewRecord == transactions'[Len(transactions')]
PriorSameKey ==
    {i \in 1..Len(transactions) : transactions[i].description_key = NewRecord.description_key}
\* whole days between two timestamps, whichever is later
DaysApart(a, b) == IF a >= b THEN (a - b) \div 24 ELSE (b - a) \div 24

\* C1 -- Cadence detection. Registering the first transaction of a
\* normalized key returns nothing and creates no subscription. Registering
\* the second one creates exactly one subscription (Active, provider derived
\* from the later transaction's description) and returns it when the two
\* timestamps are 27 to 33 whole days apart, and creates none otherwise.
C1_CadenceDetection ==
    [][RegisterStep =>
        /\ PriorSameKey = {} =>
              /\ last'.ret = <<>>
              /\ subscriptions' = subscriptions
        /\ \A i \in PriorSameKey : PriorSameKey = {i} =>
              LET first == transactions[i]
                  apart == DaysApart(first.timestamp, NewRecord.timestamp)
                  later == IF NewRecord.timestamp > first.timestamp THEN NewRecord ELSE first
                  created == (DOMAIN subscriptions') \ (DOMAIN subscriptions)
              IN  IF 27 <= apart /\ apart <= 33
                  THEN /\ Cardinality(created) = 1
                       /\ \A id \in created :
                             /\ subscriptions'[id].status = ACTIVE
                             /\ subscriptions'[id].provider = derive_provider_name(later.description)
                             /\ last'.ret = <<subscriptions'[id]>>
                  ELSE /\ created = {}
                       /\ last'.ret = <<>>
      ]_vars

\* C1 witness: the second transaction of a key arrived with the earlier
\* timestamp and another spelling; the subscription returned carries the
\* provider of the later (first registered) transaction.
C1_Witness ==
    /\ Len(transactions) = 2
    /\ transactions[1].description_key = transactions[2].description_key
    /\ transactions[1].description # transactions[2].description
    /\ transactions[2].timestamp < transactions[1].timestamp
    /\ last.op = "register_transaction"
    /\ last.ret # <<>>
    /\ last.ret[1].provider = derive_provider_name(transactions[1].description)
    /\ last.ret[1].provider # derive_provider_name(transactions[2].description)
    /\ DOMAIN subscriptions = {1}

\* C2 -- Re-linking stability: in every reachable state the Registry holds at
\* most one subscription per normalized-key cluster (the cluster of a
\* subscription is the normalized key of its reference).
C2_OneSubscriptionPerCluster ==
    \A a, b \in DOMAIN subscriptions :
        normalize_description(subscriptions[a].reference)
            = normalize_description(subscriptions[b].reference) => a = b

\* C3 -- Once a transaction record's subscription_id is set, no later
\* operation changes it to a different id.
C3_LinkNeverReassigned ==
    [][\A i \in 1..Len(transactions) :
          transactions[i].subscription_id # None =>
              transactions'[i].subscription_id = transactions[i].subscription_id
      ]_vars

\* the subscription a successful decision step was applied to
DecidedId == last'.ret[1].id
CancelOk == DecisionOk /\ last'.args = <<CANCEL>>
RenewOk == DecisionOk /\ last'.args = <<RENEW>>

\* C4 -- Idempotent cancellation: a Cancel decision on a subscription that is
\* already Cancelled leaves the savings accumulator unchanged and the status
\* Cancelled, every time it is applied.
C4_IdempotentCancel ==
    [][CancelOk /\ subscriptions[DecidedId].status = CANCELLED =>
          /\ saved_total' = saved_total
          /\ subscriptions'[DecidedId].status = CANCELLED
      ]_vars

\* C4 witness: three decisions on the only subscription, the last a Cancel,
\* no Renew among them (the renewal date is still the one the two charges
\* gave), and the accumulator holds the cost once.
C4_Witness ==
    /\ Len(transactions) = 2 /\ emails = <<>> /\ DOMAIN subscriptions = {1}
    /\ ndecisions = 3
    /\ last.op \in DecisionOps /\ last.args = <<CANCEL>>
    /\ subscriptions[1].status = CANCELLED
    /\ subscriptions[1].next_renewal_date
           = date(subscriptions[1].last_transaction_at + timedelta(30))
    /\ subscriptions[1].monthly_cost > 0
    /\ saved_total = subscriptions[1].monthly_cost

\* C5 -- Savings accrual: a Cancel decision on an Active subscription of
\* monthly cost C raises the accumulator by exactly C, and a dashboard call
\* right after a Cancel reports total_savings equal to the accumulator.
C5_SavingsAccrual ==
    [][/\ CancelOk /\ subscriptions[DecidedId].status = ACTIVE =>
              saved_total' = saved_total + subscriptions[DecidedId].monthly_cost
       /\ ( /\ last.op \in DecisionOps /\ last.status = "ok" /\ last.args = <<CANCEL>>
            /\ last'.op = "dashboard" ) =>
              last'.ret[1].total_savings = saved_total'
      ]_vars

\* C5 witness: one decision, a Cancel of the only subscription (cost 99.50,
\* the mean of 99 and 100), and the dashboard called after it.
C5_Witness ==
    /\ Len(transactions) = 2 /\ emails = <<>> /\ DOMAIN subscriptions = {1}
    /\ ndecisions = 1
    /\ subscriptions[1].status = CANCELLED
    /\ subscriptions[1].monthly_cost = 9950
    /\ saved_total = 9950
    /\ last.op = "dashboard"
    /\ last.ret[1].total_savings = 9950

\* the stored record of the email an ingest_email step took in
IngestedEmail == last'.ret[1]
\* the subscriptions whose provider equals, ignoring case, the provider
\* derived from the email's subject
ProviderMatches(subs, email) ==
    {k \in DOMAIN subs :
        str_lower(subs[k].provider) = str_lower(derive_provider_name(email.subject))}
RenewalEffect(matches) ==
    /\ \A k \in matches :
          /\ subscriptions'[k].next_renewal_date = date(IngestedEmail.timestamp) + 7
          /\ subscriptions'[k].notes = <<"Renewal reminder synced from email">>
    /\ \A k \in matches, h \in Horizons, today \in Todays :
          ( /\ subscriptions'[k].status = ACTIVE
            /\ date(IngestedEmail.timestamp) + 7 <= today + h ) =>
              \E i \in 1..Len(dashboard(subscriptions', subscription_keys', saved_total', h, today).upcoming_renewals) :
                  dashboard(subscriptions', subscription_keys', saved_total', h, today).upcoming_renewals[i]
                      = subscriptions'[k]

\* C6 (as claimed) -- Renewal email correlation: an email tagged
\* renewal_notice sets date and note of every provider match, the Active
\* ones then show in upcoming_renewals when the horizon covers the date, and
\* with no match no subscription is changed.
C6_RenewalEmailAsClaimed ==
    [][EmailStep /\ "renewal_notice" \in Range(IngestedEmail.tags) =>
          LET matches == ProviderMatches(subscriptions, IngestedEmail)
          IN  /\ RenewalEffect(matches)
              /\ matches = {} => subscriptions' = subscriptions
      ]_vars

\* C6 (amended) -- as claimed, except that with no provider match the
\* Registry is unchanged only when the email is not also tagged
\* price_increase; when it is, every subscription's note becomes the
\* price-increase note and nothing else changes.
C6_RenewalEmail ==
    [][EmailStep /\ "renewal_notice" \in Range(IngestedEmail.tags) =>
          LET matches == ProviderMatches(subscriptions, IngestedEmail)
          IN  /\ RenewalEffect(matches)
              /\ matches = {} =>
                    IF "price_increase" \in Range(IngestedEmail.tags)
                    THEN /\ DOMAIN subscriptions' = DOMAIN subscriptions
                         /\ \A k \in DOMAIN subscriptions :
                               subscriptions'[k] =
                                   [subscriptions[k] EXCEPT !.notes =
                                       <<"Price increase detected on", date(IngestedEmail.timestamp)>>]
                    ELSE subscriptions' = subscriptions
      ]_vars

\* C6 witness: a renewal email matched an Active subscription, whose renewal
\* date is now the email's date + 7.
C6_Witness ==
    /\ last.op = "ingest_email"
    /\ "renewal_notice" \in Range(last.ret[1].tags)
    /\ \E k \in DOMAIN subscriptions :
          /\ subscriptions[k].status = ACTIVE
          /\ subscriptions[k].notes = <<"Renewal reminder synced from email">>
          /\ subscriptions[k].next_renewal_date = date(last.ret[1].timestamp) + 7
          /\ subscriptions[k].next_renewal_date # date(subscriptions[k].last_transaction_at) + 30

\* C7 -- Dashboard ordering: upcoming_renewals holds exactly the Active
\* subscriptions whose next renewal date is <= today + horizon, each once,
\* by ascending renewal date and, on equal dates, ascending id; Cancelled
\* subscriptions and those past the horizon are not in it.
C7_DashboardOrdering ==
    last.op = "dashboard" =>
        LET upcoming == last.ret[1].upcoming_renewals
            cutoff == last.args[2] + last.args[1]
            due == {k \in DOMAIN subscriptions :
                       /\ subscriptions[k].status = ACTIVE
                       /\ subscriptions[k].next_renewal_date <= cutoff}
        IN  /\ Len(upcoming) = Cardinality(due)
            /\ {upcoming[i] : i \in 1..Len(upcoming)} = {subscriptions[k] : k \in due}
            /\ \A i, j \in 1..Len(upcoming) : i < j =>
                  \/ upcoming[i].next_renewal_date < upcoming[j].next_renewal_date
                  \/ /\ upcoming[i].next_renewal_date = upcoming[j].next_renewal_date
                     /\ upcoming[i].id < upcoming[j].id

\* C7 witness: two upcoming renewals, the subscription with the higher id
\* first because it renews earlier.
C7_Witness ==
    /\ last.op = "dashboard"
    /\ Len(last.ret[1].upcoming_renewals) = 2
    /\ last.ret[1].upcoming_renewals[1].id > last.ret[1].upcoming_renewals[2].id
    /\ last.ret[1].upcoming_renewals[1].next_renewal_date
           < last.ret[1].upcoming_renewals[2].next_renewal_date

\* C8 -- Not-Found: a decision that ends with 404 (request layer) or KeyError
\* (apply_decision itself) leaves Registry, Ledger, stored emails, savings
\* accumulator and sequence counter unchanged; the request layer ends an
\* unknown identifier with 404, never with the engine's KeyError; and a
\* decision succeeds only for an identifier that is in the Registry.
C8_NotFound ==
    [][/\ last'.status \in {"404", "KeyError"} =>
              UNCHANGED <<transactions, emails, subscriptions, subscription_keys, saved_total, sequence>>
       /\ last'.op = "http_apply_decision" => last'.status \in {"ok", "404"}
       /\ last'.op = "apply_decision" => last'.status \in {"ok", "KeyError"}
       /\ DecisionOk => /\ last'.op \in DecisionOps /\ last'.status = "ok"
                        /\ DecidedId \in DOMAIN subscriptions
      ]_vars

\* C8 witness: a 404 answered while the Registry holds a cancelled
\* subscription and the accumulator its saving.
C8_Witness ==
    /\ last.op = "http_apply_decision" /\ last.status = "404"
    /\ DOMAIN subscriptions = {1}
    /\ subscriptions[1].status = CANCELLED
    /\ saved_total > 0

\* C9 -- The savings accumulator never decreases; it changes only in a
\* Cancel decision on a subscription that is not Cancelled, which adds that
\* subscription's monthly cost of the moment; Renew, register_transaction,
\* ingest_email and dashboard never change it.
C9_SavingsMonotone ==
    [][/\ saved_total' >= saved_total
       /\ saved_total' # saved_total =>
              CancelOk /\ subscriptions[DecidedId].status # CANCELLED
       /\ CancelOk /\ subscriptions[DecidedId].status # CANCELLED =>
              saved_total' - saved_total = subscriptions[DecidedId].monthly_cost
       /\ RenewOk \/ RegisterStep \/ EmailStep \/ last'.op = "dashboard" =>
              saved_total' = saved_total
      ]_vars

\* C9 witness: Cancel, Renew, Cancel on the only subscription: its cost is
\* in the accumulator twice.
C9_Witness ==
    /\ DOMAIN subscriptions = {1}
    /\ ndecisions = 3
    /\ subscriptions[1].status = CANCELLED
    /\ subscriptions[1].monthly_cost > 0
    /\ saved_total = 2 * subscriptions[1].monthly_cost

\* C10 -- The Registry's identifiers are exactly 1..sequence and each
\* subscription's id is its key; the counter only grows, a new subscription
\* takes an identifier above every one assigned before, and no subscription
\* ever leaves the Registry.
C10_RegistryIds ==
    /\ [](/\ DOMAIN subscriptions = 1..sequence
          /\ \A k \in DOMAIN subscriptions : subscriptions[k].id = k)
    /\ [][/\ sequence' >= sequence
          /\ (DOMAIN subscriptions) \subseteq (DOMAIN subscriptions')
          /\ \A k \in (DOMAIN subscriptions') \ (DOMAIN subscriptions) : k > sequence
         ]_vars

\* C10 witness: two subscriptions, created one after the other, the first
\* one cancelled and still in the Registry.
C10_Witness ==
    /\ sequence = 2
    /\ DOMAIN subscriptions = {1, 2}
    /\ subscriptions[1].status = CANCELLED
    /\ subscriptions[2].status = ACTIVE

\* the same-key positions of the ledger once the new record is in it
SameKeyAfter ==
    {i \in 1..Len(transactions') :
        transactions'[i].description_key = NewRecord.description_key}
\* whole days between the two most recent same-key timestamps (there are two)
TopTwoInterval ==
    LET i == CHOOSE i \in SameKeyAfter :
                 \A j \in SameKeyAfter : transactions'[j].timestamp <= transactions'[i].timestamp
        rest == SameKeyAfter \ {i}
        j == CHOOSE j \in rest :
                 \A k \in rest : transactions'[k].timestamp <= transactions'[j].timestamp
    IN  (transactions'[i].timestamp - transactions'[j].timestamp) \div 24
NoCadence ==
    \/ Cardinality(SameKeyAfter) < 2
    \/ ~(27 <= TopTwoInterval /\ TopTwoInterval <= 33)

\* C11 -- No-effect registration: a register_transaction call that finds
\* fewer than two same-key transactions, or the two most recent of them (by
\* timestamp) not 27 to 33 whole days apart, returns nothing and leaves the
\* Registry, the sequence counter, the savings accumulator and every stored
\* transaction (its link included) unchanged; the Ledger grows by the one
\* new record, which carries no link.
C11_NoEffectRegistration ==
    [][RegisterStep /\ NoCadence =>
          /\ last'.ret = <<>>
          /\ subscriptions' = subscriptions
          /\ sequence' = sequence
          /\ saved_total' = saved_total
          /\ SubSeq(transactions', 1, Len(transactions)) = transactions
          /\ NewRecord.subscription_id = None
      ]_vars

\* C11 witness: a third charge of a cluster that has its subscription
\* arrives between the two linked ones (7 days before the latest): nothing
\* is returned, the record stays unlinked, the two links stand.
C11_Witness ==
    /\ Len(transactions) = 3
    /\ \A i \in 1..3 : transactions[i].description_key = transactions[1].description_key
    /\ transactions[1].timestamp < transactions[3].timestamp
    /\ transactions[3].timestamp < transactions[2].timestamp
    /\ last.op = "register_transaction" /\ last.ret = <<>>
    /\ transactions[1].subscription_id = 1
    /\ transactions[2].subscription_id = 1
    /\ transactions[3].subscription_id = None
    /\ DOMAIN subscriptions = {1}

\* C12 -- A successful Cancel decision sets the subscription's status to
\* Cancelled and its note to "Cancelled via assistant", returns it, and
\* leaves its id, provider, reference, monthly cost, next renewal date and
\* last-transaction timestamp, every other subscription, the Ledger and the
\* sequence counter unchanged.
C12_CancelFrame ==
    [][CancelOk =>
          /\ DOMAIN subscriptions' = DOMAIN subscriptions
          /\ DecidedId \in DOMAIN subscriptions
          /\ last'.ret = <<subscriptions'[DecidedId]>>
          /\ subscriptions'[DecidedId].status = CANCELLED
          /\ subscriptions'[DecidedId].notes = <<"Cancelled via assistant">>
          /\ subscriptions'[DecidedId].id = subscriptions[DecidedId].id
          /\ subscriptions'[DecidedId].provider = subscriptions[DecidedId].provider
          /\ subscriptions'[DecidedId].reference = subscriptions[DecidedId].reference
          /\ subscriptions'[DecidedId].monthly_cost = subscriptions[DecidedId].monthly_cost
          /\ subscriptions'[DecidedId].next_renewal_date
                 = subscriptions[DecidedId].next_renewal_date
          /\ subscriptions'[DecidedId].last_transaction_at
                 = subscriptions[DecidedId].last_transaction_at
          /\ \A k \in (DOMAIN subscriptions) \ {DecidedId} :
                 subscriptions'[k] = subscriptions[k]
          /\ transactions' = transactions
          /\ sequence' = sequence
      ]_vars

\* C12 witness: subscription 1 was renewed and then cancelled while
\* subscription 2 stood by: it is Cancelled with the renewed date, and
\* subscription 2 is as the matching engine left it.
C12_Witness ==
    /\ DOMAIN subscriptions = {1, 2}
    /\ emails = <<>> /\ ndecisions = 2
    /\ last.op \in DecisionOps /\ last.args = <<CANCEL>> /\ last.ret[1].id = 1
    /\ subscriptions[1].status = CANCELLED
    /\ subscriptions[1].notes = <<"Cancelled via assistant">>
    /\ subscriptions[1].next_renewal_date = date(subscriptions[1].last_transaction_at) + 60
    /\ subscriptions[2].status = ACTIVE
    /\ subscriptions[2].notes = <<>>
    /\ subscriptions[2].next_renewal_date = date(subscriptions[2].last_transaction_at) + 30

\* C13 -- A successful Renew decision, whatever the status before, leaves
\* the subscription Active with its renewal date 30 days later and the note
\* "Renewed via assistant", and changes neither its monthly cost nor the
\* savings accumulator. n Renew decisions in a row move the date by 30*n
\* days: while the Ledger holds the two charges that made subscription 1, no
\* email was taken in and nothing was saved, every decision so far was a
\* Renew of subscription 1, and its date is the matching engine's date plus
\* 30 days for each.
C13_Renew ==
    /\ [][RenewOk =>
              /\ DecidedId \in DOMAIN subscriptions
              /\ subscriptions'[DecidedId].status = ACTIVE
              /\ subscriptions'[DecidedId].next_renewal_date
                     = subscriptions[DecidedId].next_renewal_date + 30
              /\ subscriptions'[DecidedId].notes = <<"Renewed via assistant">>
              /\ subscriptions'[DecidedId].monthly_cost = subscriptions[DecidedId].monthly_cost
              /\ saved_total' = saved_total
         ]_vars
    /\ []( ( /\ Len(transactions) = 2 /\ emails = <<>> /\ saved_total = 0
             /\ DOMAIN subscriptions = {1} ) =>
               subscriptions[1].next_renewal_date
                   = date(subscriptions[1].last_transaction_at) + 30 + 30 * ndecisions )

\* C13 witness: Renew, Renew, Renew on the only subscription (nothing was
\* saved, so none of the three decisions was a Cancel): it is Active, with
\* the note, and its date is the matching engine's date plus 30 * 3 days.
C13_Witness ==
    /\ Len(transactions) = 2 /\ emails = <<>> /\ DOMAIN subscriptions = {1}
    /\ ndecisions = 3
    /\ last.op \in DecisionOps /\ last.args = <<RENEW>>
    /\ subscriptions[1].status = ACTIVE
    /\ subscriptions[1].notes = <<"Renewed via assistant">>
    /\ subscriptions[1].next_renewal_date
           = date(subscriptions[1].last_transaction_at) + 30 + 30 * 3
    /\ subscriptions[1].monthly_cost > 0
    /\ saved_total = 0

\* the sum of the amounts of the ledger records at the positions in S
RECURSIVE SumAmounts(_, _)
SumAmounts(txs, S) ==
    IF S = {} THEN 0
    ELSE LET i == CHOOSE i \in S : TRUE
         IN  txs[i].amount + SumAmounts(txs, S \ {i})
Abs(x) == IF x < 0 THEN -x ELSE x

\* C14 -- Snapshot recomputation: when register_transaction returns a
\* subscription S, the Registry entry of S.id is S, the new record is linked
\* to S.id, S.last_transaction_at is the greatest timestamp among the
\* records linked to S.id, S.next_renewal_date is that timestamp's date + 30,
\* and S.monthly_cost is the magnitude of the mean amount of the linked
\* records to the nearest hundredth.
C14_SnapshotRecomputation ==
    [][RegisterStep /\ last'.ret # <<>> =>
          LET S == last'.ret[1]
              linked == {i \in 1..Len(transactions') : transactions'[i].subscription_id = S.id}
              n == Cardinality(linked)
              total == Abs(SumAmounts(transactions', linked))
          IN  /\ S.id \in DOMAIN subscriptions'
              /\ subscriptions'[S.id] = S
              /\ Len(transactions') \in linked
              /\ \E i \in linked : transactions'[i].timestamp = S.last_transaction_at
              /\ \A i \in linked : transactions'[i].timestamp <= S.last_transaction_at
              /\ S.next_renewal_date = (S.last_transaction_at \div 24) + 30
              /\ 2 * Abs(S.monthly_cost * n - 100 * total) <= n
      ]_vars

\* C14 witness: a third charge, the latest, joins subscription 1; the cost
\* returned is the mean of three amounts that are not all equal (99.33 or
\* 99.67).
C14_Witness ==
    /\ Len(transactions) = 3
    /\ \A i \in 1..3 : transactions[i].subscription_id = 1
    /\ transactions[3].timestamp > transactions[2].timestamp
    /\ transactions[3].timestamp > transactions[1].timestamp
    /\ last.op = "register_transaction" /\ last.ret # <<>>
    /\ last.ret[1].id = 1
    /\ last.ret[1].monthly_cost \in {9933, 9967}
    /\ last.ret[1].last_transaction_at = transactions[3].timestamp
    /\ DOMAIN subscriptions = {1}

\* C15 -- Blanket price-increase effect: an email tagged price_increase sets
\* the note of every subscription, Active or Cancelled and whatever its
\* provider, to "Price increase detected on {email date}" and changes no
\* other field; when the email is also tagged renewal_notice the renewal
\* effect comes second, so the provider matches end with the renewal note
\* and the date email timestamp + 7 days, and all the others keep the
\* price-increase note.
C15_PriceIncrease ==
    [][EmailStep /\ "price_increase" \in Range(IngestedEmail.tags) =>
          LET matches == IF "renewal_notice" \in Range(IngestedEmail.tags)
                         THEN ProviderMatches(subscriptions, IngestedEmail)
                         ELSE {}
          IN  /\ DOMAIN subscriptions' = DOMAIN subscriptions
              /\ \A k \in (DOMAIN subscriptions) \ matches :
                    subscriptions'[k] =
                        [subscriptions[k] EXCEPT !.notes =
                            <<"Price increase detected on", IngestedEmail.timestamp \div 24>>]
              /\ \A k \in matches :
                    subscriptions'[k] =
                        [subscriptions[k] EXCEPT
                            !.notes = <<"Renewal reminder synced from email">>,
                            !.next_renewal_date = (IngestedEmail.timestamp + 7 * 24) \div 24]
      ]_vars

\* C15 witness: an email with both tags met two subscriptions of different
\* providers, one of them Cancelled: the match carries the renewal note and
\* date, the other one the price-increase note and its old date.
C15_Witness ==
    /\ last.op = "ingest_email"
    /\ Range(last.ret[1].tags) = {"renewal_notice", "price_increase"}
    /\ DOMAIN subscriptions = {1, 2}
    /\ \E k \in {1, 2} :
          /\ subscriptions[k].notes = <<"Renewal reminder synced from email">>
          /\ subscriptions[k].next_renewal_date = date(last.ret[1].timestamp) + 7
          /\ subscriptions[3 - k].provider # subscriptions[k].provider
          /\ subscriptions[3 - k].notes
                 = <<"Price increase detected on", date(last.ret[1].timestamp)>>
          /\ subscriptions[3 - k].next_renewal_date
                 = date(subscriptions[3 - k].last_transaction_at) + 30
          /\ subscriptions[3 - k].status = CANCELLED

\* both threads' calls have ended
AllReturned == \A t \in Threads : threads.frames[t].pc = "done"
\* the transaction thread t was called with
CallInput(t) ==
    [description |-> object(t).description, amount |-> object(t).amount,
     timestamp |-> object(t).timestamp]

\* C16 -- Unguarded concurrent writers. Nothing keeps the steps of two
\* register_transaction calls apart (no step of a thread waits for the
\* other thread). When the two calls do not overlap, they leave the Ledger,
\* the Registry and the sequence counter that two calls of the engine one
\* after the other leave, each returns what its sequential call returns,
\* and the Registry holds at most one subscription. (That two subscriptions
\* for one cadence are reachable when the calls overlap is the witness.)
C16_SequentialCallsSingle ==
    (AllReturned /\ ~threads.overlap) =>
        LET first == threads.objects[1]
            second == CHOOSE t \in Threads : t # first
            r1 == register_transaction(<<>>, <<>>, 0, CallInput(first))
            r2 == register_transaction(r1.transactions, r1.subscriptions, r1.sequence,
                                       CallInput(second))
        IN  /\ transactions = r2.transactions
            /\ subscriptions = r2.subscriptions
            /\ sequence = r2.sequence
            /\ threads.frames[first].ret = r1.ret
            /\ threads.frames[second].ret = r2.ret
            /\ threads.frames[first].status = "ok"
            /\ threads.frames[second].status = "ok"
            /\ Cardinality(DOMAIN subscriptions) <= 1

\* C16 witness: two overlapping calls for one normalized key, 33 days
\* apart, have both returned a subscription, and the Registry holds two
\* subscriptions for the one cadence, where the same calls one after the
\* other give one.
C16_Witness ==
    /\ AllReturned /\ threads.overlap
    /\ object(1).description_key = object(2).description_key
    /\ \A t \in Threads : threads.frames[t].status = "ok" /\ threads.frames[t].ret # <<>>
    /\ DOMAIN subscriptions = {1, 2}
    /\ normalize_description(subscriptions[1].reference) = object(1).description_key
    /\ normalize_description(subscriptions[2].reference) = object(1).description_key
    /\ subscriptions[1].last_transaction_at = subscriptions[2].last_transaction_at
    /\ LET r1 == register_transaction(<<>>, <<>>, 0, CallInput(1))
           r2 == register_transaction(r1.transactions, r1.subscriptions, r1.sequence,
                                      CallInput(2))
       IN  DOMAIN r2.subscriptions = {1}

\* The statement-level handlers and the whole-call actions of Spec agree
\* when calls are made one at a time. engine is what the manager holds
\* together with the outcome of the last call; whole_call is one call, with
\* the inputs frame f was called with, as RegisterCall, EmailCall,
\* HttpApplyDecision, ApplyDecision and Dashboard run it.
whole_call(engine, f) ==
    IF f.op = "register_transaction"
    THEN LET r == register_transaction(engine.transactions, engine.subscriptions,
                                       engine.sequence,
                                       [description |-> f.record.description,
                                        amount |-> f.record.amount,
                                        timestamp |-> f.record.timestamp])
         IN  [engine EXCEPT !.transactions = r.transactions,
                            !.subscriptions = r.subscriptions,
                            !.subscription_keys = dict_keys(engine.subscription_keys,
                                                            r.subscriptions),
                            !.sequence = r.sequence, !.status = "ok", !.ret = r.ret]
    ELSE IF f.op = "ingest_email"
    THEN LET r == ingest_email(engine.emails, engine.subscriptions,
                               [subject |-> f.email.subject, body |-> f.email.body,
                                timestamp |-> f.email.timestamp])
         IN  [engine EXCEPT !.emails = r.emails, !.subscriptions = r.subscriptions,
                            !.status = "ok", !.ret = r.ret]
    ELSE IF f.op = "dashboard"
    THEN [engine EXCEPT !.status = "ok",
                        !.ret = <<dashboard(engine.subscriptions, engine.subscription_keys,
                                            engine.saved_total, f.horizon_days, f.today)>>]
    ELSE IF /\ f.op = "http_apply_decision"
            /\ f.subscription_id \notin {engine.subscriptions[k].id :
                                            k \in DOMAIN engine.subscriptions}
    THEN [engine EXCEPT !.status = "404", !.ret = <<>>]
    ELSE LET r == apply_decision(engine.subscriptions, engine.saved_total,
                                 f.subscription_id, f.decision)
         IN  [engine EXCEPT !.subscriptions = r.subscriptions,
                            !.saved_total = r.saved_total,
                            !.status = r.status, !.ret = r.ret]
\* the calls in the sequence order, one after the other, from Init
RECURSIVE whole_calls(_)
whole_calls(order) ==
    IF order = <<>>
    THEN [transactions |-> <<>>, emails |-> <<>>, subscriptions |-> <<>>,
          subscription_keys |-> <<>>, saved_total |-> 0, sequence |-> 0,
          status |-> "ok", ret |-> <<>>]
    ELSE whole_call(whole_calls(SubSeq(order, 1, Len(order) - 1)),
                    threads.frames[order[Len(order)]])
\* the earlier requests that were made, in the order they were made in
earlier_made == SelectSeq(<<3, 4, 5>>, LAMBDA e : threads.frames[e].pc = "done")

\* When the two worker threads' calls did not overlap, the manager holds
\* what the whole-call actions leave after the same calls in the same
\* order, and each call gave back what its whole-call action gives back.
HandlersOneAtATime ==
    (AllReturned /\ ~threads.overlap) =>
        \E first \in Threads :
            LET second == CHOOSE t \in Threads : t # first
                r1 == whole_calls(Append(earlier_made, first))
                r2 == whole_call(r1, threads.frames[second])
            IN  /\ transactions = r2.transactions
                /\ emails = r2.emails
                /\ subscriptions = r2.subscriptions
                /\ subscription_keys = r2.subscription_keys
                /\ saved_total = r2.saved_total
                /\ sequence = r2.sequence
                /\ threads.frames[first].status = r1.status
                /\ threads.frames[first].ret = r1.ret
                /\ threads.frames[second].status = r2.status
                /\ threads.frames[second].ret = r2.ret
\* (reached: two calls that did not overlap, the second a cancellation that
\* was carried out)
HandlersOneAtATimeReached ==
    /\ AllReturned /\ ~threads.overlap
    /\ \E t \in Threads : /\ threads.frames[t].op = "http_apply_decision"
                          /\ threads.frames[t].decision = CANCEL
                          /\ threads.frames[t].status = "ok"
    /\ saved_total > 0
\* (reached: two cancellations of one subscription that overlapped, each of
\* which added its monthly cost)
HandlersSavedTwice ==
    /\ AllReturned /\ threads.overlap
    /\ \A t \in Threads : /\ threads.frames[t].decision = CANCEL
                          /\ threads.frames[t].subscription_id = 1
                          /\ threads.frames[t].status = "ok"
    /\ saved_total = 2 * subscriptions[1].monthly_cost
\* (reached: the request handler's set comprehension raised RuntimeError
\* because a subscription was stored while it ran)
HandlersIterRaised ==
    \E t \in Threads : /\ threads.frames[t].op = "http_apply_decision"
                       /\ threads.frames[t].status = "RuntimeError"

\* the sum of the monthly costs of the subscriptions with the ids in S
RECURSIVE SumCosts(_, _)
SumCosts(subs, S) ==
    IF S = {} THEN 0
    ELSE LET k == CHOOSE k \in S : TRUE
         IN  subs[k].monthly_cost + SumCosts(subs, S \ {k})

\* C17 -- dashboard is a pure read: a dashboard call changes neither the
\* Registry, the Ledger, the stored emails, the savings accumulator nor the
\* sequence counter, and in its result active_subscriptions +
\* cancelled_subscriptions is the number of subscriptions in the Registry,
\* monthly_commitment the sum of the monthly costs of the Active ones only,
\* and total_savings the savings accumulator.
C17_DashboardPureRead ==
    /\ [][last'.op = "dashboard" =>
              UNCHANGED <<transactions, emails, subscriptions, subscription_keys, saved_total, sequence>>
         ]_vars
    /\ [](last.op = "dashboard" =>
              LET summary == last.ret[1]
                  active == {k \in DOMAIN subscriptions : subscriptions[k].status = ACTIVE}
                  cancelled == {k \in DOMAIN subscriptions : subscriptions[k].status = CANCELLED}
              IN  /\ summary.active_subscriptions = Cardinality(active)
                  /\ summary.cancelled_subscriptions = Cardinality(cancelled)
                  /\ summary.active_subscriptions + summary.cancelled_subscriptions
                         = Cardinality(DOMAIN subscriptions)
                  /\ summary.monthly_commitment = SumCosts(subscriptions, active)
                  /\ summary.total_savings = saved_total)

\* C17 witness: a dashboard over one Active and one Cancelled subscription:
\* the commitment is the Active one's cost, the savings the Cancelled one's.
C17_Witness ==
    /\ last.op = "dashboard"
    /\ DOMAIN subscriptions = {1, 2}
    /\ subscriptions[1].status = CANCELLED /\ subscriptions[2].status = ACTIVE
    /\ last.ret[1].active_subscriptions = 1
    /\ last.ret[1].cancelled_subscriptions = 1
    /\ last.ret[1].monthly_commitment = subscriptions[2].monthly_cost
    /\ last.ret[1].monthly_commitment > 0
    /\ last.ret[1].total_savings = subscriptions[1].monthly_cost

\* C18 -- A subscription's status changes only in a successful decision on
\* it, and the Registry gets a new subscription only in register_transaction;
\* ingest_email changes no subscription's status, monthly cost, provider or
\* id; a Cancelled subscription stays Cancelled until a Renew decision on it.
C18_StatusOnlyByDecision ==
    [][/\ (DOMAIN subscriptions) \subseteq (DOMAIN subscriptions')
       /\ \A k \in DOMAIN subscriptions :
             subscriptions'[k].status # subscriptions[k].status =>
                 DecisionOk /\ DecidedId = k
       /\ \A k \in DOMAIN subscriptions :
             (subscriptions[k].status = CANCELLED /\ subscriptions'[k].status # CANCELLED) =>
                 RenewOk /\ DecidedId = k
       /\ DOMAIN subscriptions' # DOMAIN subscriptions => RegisterStep
       /\ EmailStep =>
             /\ DOMAIN subscriptions' = DOMAIN subscriptions
             /\ \A k \in DOMAIN subscriptions :
                   /\ subscriptions'[k].status = subscriptions[k].status
                   /\ subscriptions'[k].monthly_cost = subscriptions[k].monthly_cost
                   /\ subscriptions'[k].provider = subscriptions[k].provider
                   /\ subscriptions'[k].id = subscriptions[k].id
      ]_vars

\* C18 witness: subscription 1 was cancelled at cost 100.00, then a third
\* charge of 99 recomputed its cost and date: it is still Cancelled.
C18_Witness ==
    /\ Len(transactions) = 3
    /\ \A i \in 1..3 : transactions[i].subscription_id = 1
    /\ last.op = "register_transaction" /\ last.ret # <<>>
    /\ last.ret[1].id = 1 /\ last.ret[1].status = CANCELLED
    /\ subscriptions[1].status = CANCELLED
    /\ saved_total = 10000
    /\ subscriptions[1].monthly_cost = 9967
    /\ subscriptions[1].last_transaction_at = transactions[3].timestamp

\* C19 -- Link integrity: every set subscription_id is an id in the
\* Registry, the transactions linked to one id share one normalized key, and
\* the linked transactions of one normalized key share one id.
C19_LinkIntegrity ==
    \A i \in 1..Len(transactions) :
        transactions[i].subscription_id # None =>
            /\ transactions[i].subscription_id \in DOMAIN subscriptions
            /\ \A j \in 1..Len(transactions) :
                  transactions[j].subscription_id = transactions[i].subscription_id =>
                      transactions[j].description_key = transactions[i].description_key
            /\ \A j \in 1..Len(transactions) :
                  ( /\ transactions[j].subscription_id # None
                    /\ transactions[j].description_key = transactions[i].description_key ) =>
                      transactions[j].subscription_id = transactions[i].subscription_id

\* C19 witness: a cluster whose records were linked to subscription 1 has
\* got subscription 2: all three records carry the id 2, next to a record
\* of another key that carries none.
C19_Witness ==
    /\ Len(transactions) = 3
    /\ DOMAIN subscriptions = {1, 2}
    /\ \A i \in 1..3 : transactions[i].subscription_id = 2
    /\ \A i \in 1..3 : transactions[i].description_key = transactions[1].description_key

\* C20 -- Cluster isolation: a register_transaction call for a transaction
\* of normalized key K creates or modifies at most one subscription, the one
\* it returns; it changes nothing of a stored transaction but the link, and
\* that only for key K; and every subscription that a transaction of
\* another key is linked to is left unchanged.
C20_ClusterIsolation ==
    [][RegisterStep =>
          LET K == NewRecord.description_key
              touched == {k \in DOMAIN subscriptions' :
                             \/ k \notin DOMAIN subscriptions
                             \/ subscriptions'[k] # subscriptions[k]}
          IN  /\ Cardinality(touched) <= 1
              /\ \A k \in touched : last'.ret = <<subscriptions'[k]>>
              /\ \A i \in 1..Len(transactions) :
                    /\ transactions'[i] =
                           [transactions[i] EXCEPT
                               !.subscription_id = transactions'[i].subscription_id]
                    /\ transactions[i].description_key # K =>
                           transactions'[i] = transactions[i]
              /\ \A i \in 1..Len(transactions) :
                    ( /\ transactions[i].description_key # K
                      /\ transactions[i].subscription_id # None ) =>
                        /\ transactions[i].subscription_id \in DOMAIN subscriptions'
                        /\ subscriptions'[transactions[i].subscription_id]
                               = subscriptions[transactions[i].subscription_id]
      ]_vars

\* C20 witness: the fourth charge gave a second cluster its subscription 2
\* while the first cluster's records keep their links to subscription 1.
C20_Witness ==
    /\ Len(transactions) = 4
    /\ DOMAIN subscriptions = {1, 2}
    /\ last.op = "register_transaction" /\ last.ret # <<>> /\ last.ret[1].id = 2
    /\ transactions[4].subscription_id = 2
    /\ \E i, j \in 1..3 :
          /\ i # j
          /\ transactions[i].subscription_id = 1 /\ transactions[j].subscription_id = 1
          /\ transactions[i].description_key # transactions[4].description_key
          /\ transactions[j].description_key # transactions[4].description_key
====
